---- MODULE Spec2Model ----
(***************************************************************************)
(* memory-guardian: the vector indexing and retrieval engine.              *)
(*                                                                         *)
(*   - chunkText / chunkMarkdown            (utils/chunk)                  *)
(*   - FaissVectorStore                     (utils/faiss-store)            *)
(*   - FaissVectorizerService: the priority task queue and its drain loop  *)
(*                                          (components/faiss-vectorizer)  *)
(*                                                                         *)
(* Strings are sequences of characters; a character is a one-character     *)
(* string, or "uXXXX" for the code unit U+XXXX.  The asynchronous          *)
(* functions of the service are split at their await points: every action  *)
(* runs from one suspension point to the next.                             *)
(***************************************************************************)
EXTENDS Integers, Sequences, FiniteSets, TLC

----------------------------------------------------------------------------
(* Bounds of the model *)

\* number of tasks that addTask accepts with an id of their own
MaxTasks == 3
\* length of the pending queue up to which the unbounded task stream is let in
MaxQueue == 11
\* number of vectors, and of ids, a client of the store lets it grow to
MaxVectors == 3
\* items of one addBatch call made by a client of the store
MaxBatchItems == 5
\* the greatest k a client passes to search
MaxK == 3
\* config.chunkSize and config.chunkOverlap of the modelled service
ChunkSize == 4
ChunkOverlap == 1

----------------------------------------------------------------------------
(* Program constants *)

\* getEmbeddingDimension()
DIMENSION == 384
\* taskQueue.splice(0, 10)
BatchSize == 10
\* the priority of a task queued by the memory-guardian.index RPC
RpcPriority == 5
\* the priority of a task queued by indexWorkspace
WorkspacePriority == 1
\* hooks/rag-inject: MIN_QUERY_LENGTH, CACHE_TTL (milliseconds), ragTopK of
\* the handler's call
MIN_QUERY_LENGTH == 5
CACHE_TTL == 5000
HookTopK == 5
\* substring(0, 200) of the deduplication key
TextKeyLength == 200
\* Date.now() when the process starts, and the time that passes in one step
\* of the clock (half the time-to-live)
StartTime == 1000000
ClockStep == CACHE_TTL \div 2

ALLOWED_AGENTS == {"main", "main-lite"}

\* the history of the handler before its first run
NoHookLog ==
    [asked |-> {}, missed |-> {}, entry |-> [query |-> <<>>, at |-> 0, context |-> <<>>],
     fresh |-> {}, since |-> {}]

\* the module variables before the first retrieval; null is modelled by the
\* empty sequence, which like null is falsy and equals no user query that
\* passes the length test
NoCache == [lastQuery |-> <<>>, lastResult |-> <<>>, lastTimestamp |-> 0]

----------------------------------------------------------------------------
(* Strings *)

Min(a, b) == IF a < b THEN a ELSE b

\* a value computed once and then used: `const x = v; ... x ...`
Bind(v, Body(_)) == CHOOSE r \in { Body(x) : x \in {v} } : TRUE

\* s.slice(from, to) with 0-based, end-exclusive positions
Slice(s, from, to) == SubSeq(s, from + 1, to)

\* the characters String.prototype.trim removes
IsSpace(c) == c \in {" ", "\n", "\t"}

RECURSIVE TrimStart(_)
TrimStart(s) ==
    IF s = <<>> THEN <<>>
    ELSE IF IsSpace(Head(s)) THEN TrimStart(Tail(s)) ELSE s

RECURSIVE TrimEnd(_)
TrimEnd(s) ==
    IF s = <<>> THEN <<>>
    ELSE IF IsSpace(s[Len(s)]) THEN TrimEnd(SubSeq(s, 1, Len(s) - 1)) ELSE s

\* text.trim()
Trim(s) == Bind(s, LAMBDA str : Bind(TrimStart(str), LAMBDA t : TrimEnd(t)))

----------------------------------------------------------------------------
(* utils/chunk: adjustChunkBoundary *)

\* the character classes of boundaryPatterns, in the order they are tried;
\* the first pattern is the two-character paragraph break
BoundaryClasses ==
    << {"\n"}, {"\n"}, {"u3002", "uFF01", "uFF1F"}, {".", "!", "?"},
       {"uFF0C", ",", "uFF1B", ";"} >>

\* [...region.matchAll(pattern)]: the 0-based start positions of the
\* non-overlapping matches, scanning from position `from`, left to right
RECURSIVE MatchStarts(_, _, _)
MatchStarts(region, p, from) ==
    LET width == IF p = 1 THEN 2 ELSE 1
        hit   == /\ from + width <= Len(region)
                 /\ \A k \in 1..width : region[from + k] \in BoundaryClasses[p]
    IN  IF from + width > Len(region) THEN <<>>
        ELSE IF hit THEN <<from>> \o MatchStarts(region, p, from + width)
        ELSE MatchStarts(region, p, from + 1)

\* the for loop over boundaryPatterns, from pattern p on: the end position of
\* the last match of the first pattern that matches at all, or -1
RECURSIVE BoundaryPos(_, _, _)
BoundaryPos(region, searchStart, p) ==
    IF p > Len(BoundaryClasses) THEN -1
    ELSE LET ms    == MatchStarts(region, p, 0)
             width == IF p = 1 THEN 2 ELSE 1
         IN  IF ms # <<>> THEN searchStart + ms[Len(ms)] + width
             ELSE BoundaryPos(region, searchStart, p + 1)

\* adjustChunkBoundary(chunk, fullText, startOffset, endOffset).text
adjustChunkBoundary(chunk, fullText, startOffset, endOffset) ==
    IF endOffset >= Len(fullText) THEN chunk
    ELSE LET searchStart  == (Len(chunk) * 3) \div 4
             searchRegion == Slice(chunk, searchStart, Len(chunk))
             boundaryPos  == BoundaryPos(searchRegion, searchStart, 1)
         IN  IF boundaryPos >= 0 THEN Slice(chunk, 0, boundaryPos) ELSE chunk

----------------------------------------------------------------------------
(* utils/chunk: chunkText *)

\* the while loop of chunkText from the cursor `offset` on (step > 0)
RECURSIVE SlidingWindow(_, _, _, _)
SlidingWindow(text, chunkSize, step, offset) ==
    IF offset >= Len(text) THEN <<>>
    ELSE LET endPos == Min(offset + chunkSize, Len(text))
             raw    == Slice(text, offset, endPos)
         IN  Bind(Trim(adjustChunkBoundary(raw, text, offset, endPos)), LAMBDA trimmed :
                 (IF trimmed # <<>> THEN << [text |-> trimmed, offset |-> offset] >> ELSE <<>>)
                 \o SlidingWindow(text, chunkSize, step, offset + step))

\* chunkText with a short text passed on as it is, white space included
chunkText_Untrimmed(text, chunkSize, chunkOverlap) ==
    IF text = <<>> THEN <<>>
    ELSE IF Len(text) <= chunkSize
         THEN << [text |-> text, offset |-> 0] >>
         ELSE SlidingWindow(text, chunkSize, chunkSize - chunkOverlap, 0)

\* chunkText(text, {chunkSize, chunkOverlap}): the text and offset of every chunk
chunkText(text, chunkSize, chunkOverlap) ==
    IF text = <<>> \/ Trim(text) = <<>> THEN <<>>
    ELSE IF Len(text) <= chunkSize
         THEN << [text |-> Trim(text), offset |-> 0] >>
         ELSE SlidingWindow(text, chunkSize, chunkSize - chunkOverlap, 0)

----------------------------------------------------------------------------
(* utils/chunk: chunkMarkdown *)

\* the character at the 0-based position i
CharAt(s, i) == s[i + 1]

\* the length of the run of characters of `class` that starts at position i
RECURSIVE RunLength(_, _, _)
RunLength(s, i, class) ==
    IF i < Len(s) /\ CharAt(s, i) \in class THEN 1 + RunLength(s, i + 1, class) ELSE 0

\* content.replace(/\n{3,}/g, '\n\n')
RECURSIVE CollapseNewlines(_)
CollapseNewlines(s) ==
    IF s = <<>> THEN <<>>
    ELSE LET run == RunLength(s, 0, {"\n"})
         IN  IF run >= 3 THEN <<"\n", "\n">> \o CollapseNewlines(Slice(s, run, Len(s)))
             ELSE <<Head(s)>> \o CollapseNewlines(Tail(s))

\* the position at which (.+) starts when /^(#{1,6})\s+(.+)$/m matches at the
\* line start i, or -1 when it does not match there: one to six '#', then the
\* longest run of white space that still leaves a character other than a line
\* break for (.+)
HeaderTextStart(s, i) ==
    LET hashes == RunLength(s, i, {"#"})
        spaces == RunLength(s, i + hashes, {" ", "\n", "\t"})
        starts == { k \in 1..spaces :
                      /\ i + hashes + k < Len(s)
                      /\ CharAt(s, i + hashes + k) # "\n" }
    IN  IF hashes \in 1..6 /\ starts # {}
        THEN i + hashes + (CHOOSE k \in starts : \A j \in starts : j <= k)
        ELSE -1

\* [...content.matchAll(headerPattern)] from position i on: for every match its
\* index and the text of its second group
RECURSIVE HeaderMatches(_, _)
HeaderMatches(s, i) ==
    IF i >= Len(s) THEN <<>>
    ELSE LET lineStart == i = 0 \/ CharAt(s, i - 1) = "\n"
             notBreak  == {c \in {s[k] : k \in 1..Len(s)} : c # "\n"}
         IN  Bind(IF lineStart THEN HeaderTextStart(s, i) ELSE -1, LAMBDA textStart :
                 IF textStart < 0 THEN HeaderMatches(s, i + 1)
                 ELSE Bind(textStart + RunLength(s, textStart, notBreak), LAMBDA textEnd :
                          << [index |-> i, header |-> Slice(s, textStart, textEnd)] >>
                          \o HeaderMatches(s, textEnd)))

\* splitByHeaders(content)
splitByHeaders(content) ==
    Bind(HeaderMatches(content, 0), LAMBDA matches :
        LET n      == Len(matches)
            before == IF matches[1].index > 0
                      THEN << [header |-> <<>>, content |-> Slice(content, 0, matches[1].index)] >>
                      ELSE <<>>
        IN  IF n = 0 THEN << [header |-> <<>>, content |-> content] >>
            ELSE before \o
                 [ i \in 1..n |->
                     [header  |-> matches[i].header,
                      content |-> Slice(content, matches[i].index,
                                        IF i < n THEN matches[i + 1].index ELSE Len(content))] ])

\* the for loop of chunkMarkdown over the sections, from section i on; every
\* chunk carries the header of its section (metadata.sectionHeader)
RECURSIVE SectionChunks(_, _, _, _)
SectionChunks(sections, i, chunkSize, chunkOverlap) ==
    IF i > Len(sections) THEN <<>>
    ELSE LET section == sections[i]
         IN  Bind(IF Trim(section.content) = <<>> THEN <<>>
                  ELSE chunkText(section.content, chunkSize, chunkOverlap), LAMBDA chunks :
                 [ k \in 1..Len(chunks) |->
                     [text |-> chunks[k].text, offset |-> chunks[k].offset,
                      sectionHeader |-> section.header] ]
                 \o SectionChunks(sections, i + 1, chunkSize, chunkOverlap))

\* chunkMarkdown(content, {chunkSize, chunkOverlap})
chunkMarkdown(content, chunkSize, chunkOverlap) ==
    Bind(CollapseNewlines(content), LAMBDA cleaned :
        Bind(splitByHeaders(cleaned), LAMBDA sections :
            SectionChunks(sections, 1, chunkSize, chunkOverlap)))

----------------------------------------------------------------------------
(* State *)

VARIABLES
    \* utils/faiss-store: the fields of the FaissVectorStore instance
    \*   index (null, or the vectors in the order they were added),
    \*   documents (the Map id -> chunk), nextId, isDirty
    store,
    \* the files at indexPath and metaPath
    disk,
    \* utils/faiss-store: globalStore is set
    globalStoreSet,
    \* utils/embeddings: embeddingPipeline is loaded
    embeddingPipeline,
    \* components/faiss-vectorizer: globalService is set
    globalService,
    \* components/faiss-vectorizer: the fields of the FaissVectorizerService
    svcStore, initialized, processIntervalId, taskQueue, isProcessing,
    \* the runs of processTasks in flight, each suspended at an await
    drains,
    \* the run of shutdown in flight: "none", "flushed" (suspended on the await
    \* of flush) or "done"
    shutdownPc,
    \* the number of tasks addTask has accepted with an id of their own
    accepted,
    \* history: how often every task was handed to processTask, and how its
    \* processing ended
    handed, outcome,
    \* history: the store operations called so far, each with its caller
    storeCalls,
    \* history: whether the store instance is the first over its files or the
    \* second, and how the process of the first ended (follows); the ids add
    \* and addBatch have returned on this instance (returned), those returned
    \* since the last clear (current), the ids deleteDocument has removed
    \* (deleted) and those of them that were not returned again since (removed)
    idlog,
    \* hooks/rag-inject: lastQuery, lastResult and lastTimestamp of the handler
    cache,
    \* Date.now()
    clock,
    \* hooks/rag-inject: the runs of the handler in flight, each suspended on its
    \* await of performRagRetrieval
    hooks,
    \* history of the handler: the queries it has retrieved (asked) and those
    \* a retrieval has returned nothing for (missed); the query, beginning and text of the latest retrieval
    \* that returned results (entry); the runs in flight that began after
    \* that retrieval returned (fresh) and the queries retrieved without a
    \* result by runs that began after it (since)
    hooklog,
    \* history: the operation that made the last step, its arguments and result
    last

storeVars == <<store, disk, globalStoreSet, embeddingPipeline>>
svcVars   == <<globalService, svcStore, initialized, processIntervalId, taskQueue, isProcessing,
               drains, shutdownPc, accepted>>
histVars  == <<handed, outcome, storeCalls, idlog>>
hookVars  == <<cache, clock, hooks, hooklog>>
vars      == <<storeVars, svcVars, histVars, hookVars, last>>

----------------------------------------------------------------------------
(* utils/faiss-store: FaissVectorStore *)

\* a Map as a function: set, delete
MapSet(m, k, v) == [x \in (DOMAIN m) \cup {k} |-> IF x = k THEN v ELSE m[x]]
MapDelete(m, k) == [x \in (DOMAIN m) \ {k} |-> m[x]]
EmptyMap        == [x \in {} |-> 0]

\* new IndexFlatIP(DIMENSION)
NewIndex == [isNull |-> FALSE, vectors |-> <<>>]

\* the fields of a FaissVectorStore after its constructor
NewStore ==
    [index |-> [isNull |-> TRUE, vectors |-> <<>>],
     documents |-> EmptyMap, nextId |-> 0, isDirty |-> FALSE]

\* no file at indexPath, no file at metaPath
EmptyDisk ==
    [indexFile |-> [exists |-> FALSE, vectors |-> <<>>],
     metaFile  |-> [exists |-> FALSE, parses |-> TRUE, nextId |-> 0, documents |-> <<>>]]

\* Array.from(documents.entries()): the [id, chunk] pairs in insertion order,
\* which is the order of the ids
RECURSIVE Entries(_)
Entries(map) ==
    Bind(map, LAMBDA m :
        IF DOMAIN m = {} THEN <<>>
        ELSE LET k == CHOOSE x \in DOMAIN m : \A y \in DOMAIN m : x <= y
             IN  << <<k, m[k]>> >> \o Entries(MapDelete(m, k)))

\* new Map(entries)
RECURSIVE FromEntries(_)
FromEntries(entries) ==
    Bind(entries, LAMBDA es :
        IF es = <<>> THEN EmptyMap
        ELSE Bind(FromEntries(SubSeq(es, 1, Len(es) - 1)), LAMBDA m :
                 MapSet(m, es[Len(es)][1], es[Len(es)][2])))

\* load(): the store afterwards, and whether it threw
load(st, dk) ==
    IF ~dk.indexFile.exists \/ ~dk.metaFile.exists
    THEN [store |-> st, threw |-> TRUE]
    ELSE LET read == [st EXCEPT !.index = [isNull |-> FALSE, vectors |-> dk.indexFile.vectors]]
         IN  IF ~dk.metaFile.parses
             THEN [store |-> read, threw |-> TRUE]
             ELSE [store |-> [read EXCEPT !.nextId = dk.metaFile.nextId,
                                          !.documents = FromEntries(dk.metaFile.documents),
                                          !.isDirty = FALSE],
                   threw |-> FALSE]

\* initialize(): the store afterwards, and whether it threw
initialize(st, dk) ==
    IF dk.indexFile.exists /\ dk.metaFile.exists
    THEN load(st, dk)
    ELSE [store |-> [st EXCEPT !.index = NewIndex], threw |-> FALSE]

\* add that takes the id before it checks the length of the embedding
add_CountsFirst(st, chunk, embedding) ==
    IF st.index.isNull
    THEN [store |-> st, threw |-> TRUE, id |-> -1]
    ELSE IF embedding.length # DIMENSION
    THEN [store |-> [st EXCEPT !.nextId = st.nextId + 1], threw |-> TRUE, id |-> -1]
    ELSE [store |-> [st EXCEPT !.nextId = st.nextId + 1,
                               !.index.vectors = Append(st.index.vectors, embedding),
                               !.documents = MapSet(st.documents, st.nextId, chunk),
                               !.isDirty = TRUE],
          threw |-> FALSE, id |-> st.nextId]

\* add(chunk, embedding): the store afterwards, whether it threw, the id returned
add(st, chunk, embedding) ==
    IF st.index.isNull \/ embedding.length # DIMENSION
    THEN [store |-> st, threw |-> TRUE, id |-> -1]
    ELSE [store |-> [st EXCEPT !.nextId = st.nextId + 1,
                               !.index.vectors = Append(st.index.vectors, embedding),
                               !.documents = MapSet(st.documents, st.nextId, chunk),
                               !.isDirty = TRUE],
          threw |-> FALSE, id |-> st.nextId]

\* the loop with `break` in the place of `continue`: it ends at the first item
\* of a wrong length
RECURSIVE AddItems_Break(_, _, _, _, _, _)
AddItems_Break(nextId, vectors, documents, ids, items, i) ==
    IF i > Len(items) \/ items[i].embedding.length # DIMENSION
    THEN [nextId |-> nextId, vectors |-> vectors, documents |-> documents, ids |-> ids]
    ELSE AddItems_Break(nextId + 1, Append(vectors, items[i].embedding),
                        MapSet(documents, nextId, items[i].chunk), Append(ids, nextId),
                        items, i + 1)

\* the for loop of addBatch from item i on: nextId, the vectors of the index,
\* the documents and the ids pushed
RECURSIVE AddItems(_, _, _, _, _, _)
AddItems(nextId, vectors, documents, ids, items, i) ==
    IF i > Len(items)
    THEN [nextId |-> nextId, vectors |-> vectors, documents |-> documents, ids |-> ids]
    ELSE IF items[i].embedding.length # DIMENSION
         THEN AddItems(nextId, vectors, documents, ids, items, i + 1)
         ELSE AddItems(nextId + 1, Append(vectors, items[i].embedding),
                       MapSet(documents, nextId, items[i].chunk), Append(ids, nextId),
                       items, i + 1)

\* addBatch(items): the store afterwards, whether it threw, the ids returned
addBatch(st, items) ==
    IF st.index.isNull
    THEN [store |-> st, threw |-> TRUE, ids |-> <<>>]
    ELSE LET r == AddItems(st.nextId, st.index.vectors, st.documents, <<>>, items, 1)
         IN  [store |-> [st EXCEPT !.nextId = r.nextId, !.index.vectors = r.vectors,
                                   !.documents = r.documents, !.isDirty = TRUE],
              threw |-> FALSE, ids |-> r.ids]

\* the outcomes of the two writes of save
IoOutcomes == {"ok", "indexWriteFails", "metaWriteFails"}

\* save that writes the documents without the counter: a metadata file whose
\* nextId reads as 0
save_NoCounter(st, dk, io) ==
    IF st.index.isNull \/ io = "indexWriteFails"
    THEN [store |-> st, disk |-> dk, threw |-> TRUE]
    ELSE LET written == [dk EXCEPT !.indexFile = [exists |-> TRUE, vectors |-> st.index.vectors]]
         IN  IF io = "metaWriteFails"
             THEN [store |-> st, disk |-> written, threw |-> TRUE]
             ELSE [store |-> [st EXCEPT !.isDirty = FALSE],
                   disk  |-> [written EXCEPT !.metaFile =
                                 [exists |-> TRUE, parses |-> TRUE, nextId |-> 0,
                                  documents |-> Entries(st.documents)]],
                   threw |-> FALSE]

\* save(): the store and the files afterwards, and whether it threw
save(st, dk, io) ==
    IF st.index.isNull \/ io = "indexWriteFails"
    THEN [store |-> st, disk |-> dk, threw |-> TRUE]
    ELSE LET written == [dk EXCEPT !.indexFile = [exists |-> TRUE, vectors |-> st.index.vectors]]
         IN  IF io = "metaWriteFails"
             THEN [store |-> st, disk |-> written, threw |-> TRUE]
             ELSE [store |-> [st EXCEPT !.isDirty = FALSE],
                   disk  |-> [written EXCEPT !.metaFile =
                                 [exists |-> TRUE, parses |-> TRUE, nextId |-> st.nextId,
                                  documents |-> Entries(st.documents)]],
                   threw |-> FALSE]

\* flush without the test of isDirty
flush_Always(st, dk, io) == save(st, dk, io)

\* flush()
flush(st, dk, io) ==
    IF st.isDirty THEN save(st, dk, io)
    ELSE [store |-> st, disk |-> dk, threw |-> FALSE]

\* clear that keeps the index: the vectors of the documents it drops stay
clear_KeepsIndex(st) ==
    [st EXCEPT !.index.isNull = FALSE, !.documents = EmptyMap, !.nextId = 0, !.isDirty = TRUE]

\* clear()
clear(st) ==
    [st EXCEPT !.index = NewIndex, !.documents = EmptyMap, !.nextId = 0, !.isDirty = TRUE]

\* deleteDocument that gives the id of the newest document back to the counter
deleteDocument_Rewinds(st, id) ==
    IF id \in DOMAIN st.documents
    THEN [store |-> [st EXCEPT !.documents = MapDelete(st.documents, id), !.isDirty = TRUE,
                               !.nextId = IF id = st.nextId - 1 THEN id ELSE st.nextId],
          result |-> TRUE]
    ELSE [store |-> st, result |-> FALSE]

\* deleteDocument that takes the vector out of the index as well
deleteDocument_Compacts(st, id) ==
    IF id \in DOMAIN st.documents
    THEN [store |-> [st EXCEPT !.documents = MapDelete(st.documents, id), !.isDirty = TRUE,
                               !.index.vectors = SubSeq(@, 1, id) \o SubSeq(@, id + 2, Len(@))],
          result |-> TRUE]
    ELSE [store |-> st, result |-> FALSE]

\* deleteDocument(id): the store afterwards and the value returned
deleteDocument(st, id) ==
    IF id \in DOMAIN st.documents
    THEN [store |-> [st EXCEPT !.documents = MapDelete(st.documents, id), !.isDirty = TRUE],
          result |-> TRUE]
    ELSE [store |-> st, result |-> FALSE]

\* getDocumentCount()
getDocumentCount(st) == Cardinality(DOMAIN st.documents)

\* scores and distances are counted in hundredths: Unit is the 1 of
\* `1 - results.distances[i]`
Unit == 100

\* the inner product of two vectors of the embedding model, which are L2
\* normalized: Unit for the vectors of one text, less for those of two texts
\* (half a Unit for every position at which the texts agree, Unit excluded)
InnerProduct(a, b) ==
    IF a.of = b.of THEN Unit
    ELSE Min(Unit - 1,
             (Unit \div 2) * Cardinality({i \in 1..Min(Len(a.of), Len(b.of)) : a.of[i] = b.of[i]}))

\* the ways IndexFlatIP may order vectors of equal score
TieOrders == {"first", "last"}

\* an index that returns the first k vectors in the order they were added
IndexSearch_Unsorted(vectors, query, k, tie) ==
    [i \in 1..k |->
        IF i <= Len(vectors)
        THEN [label |-> i - 1, distance |-> InnerProduct(vectors[i], query)]
        ELSE [label |-> -1, distance |-> 0]]

\* IndexFlatIP.search(query, k): k labels with their scores, the highest score
\* first; a label is the position at which the vector was added, counted from
\* 0; places for which the index has no vector carry the label -1
IndexSearch(vectors, query, k, tie) ==
    Bind([p \in 1..Len(vectors) |-> InnerProduct(vectors[p], query)], LAMBDA score :
        Bind([p \in 1..Len(vectors) |->
                 Cardinality({q \in 1..Len(vectors) :
                     \/ score[q] > score[p]
                     \/ score[q] = score[p] /\ (IF tie = "first" THEN q < p ELSE q > p)})],
             LAMBDA rank :
                 [i \in 1..k |->
                     IF i <= Len(vectors)
                     THEN LET p == CHOOSE x \in 1..Len(vectors) : rank[x] = i - 1
                          IN  [label |-> p - 1, distance |-> score[p]]
                     ELSE [label |-> -1, distance |-> 0]]))

\* the loop without the test of the chunk: a label without a document is
\* pushed with an undefined chunk
RECURSIVE SearchResults_NoCheck(_, _, _)
SearchResults_NoCheck(documents, found, i) ==
    IF i > Len(found) THEN <<>>
    ELSE Bind(SearchResults_NoCheck(documents, found, i + 1), LAMBDA rest :
             IF found[i].label < 0
             THEN rest
             ELSE << [id |-> found[i].label, distance |-> Unit - found[i].distance,
                      chunk |-> IF found[i].label \in DOMAIN documents
                                THEN documents[found[i].label] ELSE "undefined"] >> \o rest)

\* the loop of search over the labels from place i on: the results pushed
RECURSIVE SearchResults(_, _, _)
SearchResults(documents, found, i) ==
    IF i > Len(found) THEN <<>>
    ELSE Bind(SearchResults(documents, found, i + 1), LAMBDA rest :
             IF found[i].label < 0 \/ found[i].label \notin DOMAIN documents
             THEN rest
             ELSE << [id |-> found[i].label, distance |-> Unit - found[i].distance,
                      chunk |-> documents[found[i].label]] >> \o rest)

\* search that asks the index for k vectors, however few documents there are
search_Unclamped(st, queryEmbedding, k, tie) ==
    IF st.index.isNull
    THEN [threw |-> TRUE, results |-> <<>>]
    ELSE IF getDocumentCount(st) = 0
    THEN [threw |-> FALSE, results |-> <<>>]
    ELSE Bind(IndexSearch(st.index.vectors, queryEmbedding, k, tie), LAMBDA found :
             [threw |-> FALSE, results |-> SearchResults(st.documents, found, 1)])

\* search(queryEmbedding, k): whether it threw, and the results returned
search(st, queryEmbedding, k, tie) ==
    IF st.index.isNull
    THEN [threw |-> TRUE, results |-> <<>>]
    ELSE IF getDocumentCount(st) = 0
    THEN [threw |-> FALSE, results |-> <<>>]
    ELSE Bind(Min(k, getDocumentCount(st)), LAMBDA actualK :
             Bind(IndexSearch(st.index.vectors, queryEmbedding, actualK, tie), LAMBDA found :
                 [threw |-> FALSE, results |-> SearchResults(st.documents, found, 1)]))

\* the history of the ids of a new store instance, the first over its files
NoIds ==
    [instance |-> "first", follows |-> "nothing",
     returned |-> {}, current |-> {}, deleted |-> {}, removed |-> {}]

\* the history after add or addBatch has returned ids, after deleteDocument
\* has returned true for id, and after clear
IdsReturned(log, ids) ==
    [log EXCEPT !.returned = @ \cup ids, !.current = @ \cup ids, !.removed = @ \ ids]
IdRemoved(log, id) == [log EXCEPT !.deleted = @ \cup {id}, !.removed = @ \cup {id}]
IdsCleared(log) == [log EXCEPT !.current = {}]
\* the history of the instance that follows a process that ended as `how` says
NextInstance(log, how) == [NoIds EXCEPT !.instance = "second", !.follows = how]

----------------------------------------------------------------------------
(* Inputs *)

\* task contents: a text of two windows, a text of one window, white space only
LongText  == <<"a", "b", ".", "c", "d", "e">>
ShortText == <<"h", "i">>
BlankText == <<" ">>
\* a markdown file with one header
MarkdownText == <<"#", " ", "t", "\n", "x">>

\* the tasks callers hand to addTask (task minus id and createdAt): the
\* memory-guardian.index RPC queues type 'text' with priority 5; a sourcePath of
\* "undefined" stands for a task object without that property
TaskInputs ==
    { [type |-> "text", content |-> LongText, sourcePath |-> "rpc-input", priority |-> RpcPriority],
      [type |-> "conversation", content |-> BlankText, sourcePath |-> "session", priority |-> 3],
      [type |-> "summary", content |-> ShortText, sourcePath |-> "session", priority |-> 3],
      [type |-> "file", content |-> ShortText, sourcePath |-> "undefined", priority |-> WorkspacePriority] }

\* the task of a memory-guardian.index request whose text is white space
FloodInput ==
    [type |-> "text", content |-> BlankText, sourcePath |-> "rpc-input", priority |-> RpcPriority]

\* stat.size > 1024 * 1024
MaxFileSize == 1048576

\* the *.md files of <workspace>/memory as readdirSync lists them
MemoryFiles ==
    << [name |-> "a.md", size |-> 5, readable |-> TRUE, content |-> MarkdownText],
       [name |-> "big.md", size |-> MaxFileSize + 1, readable |-> TRUE, content |-> <<>>],
       [name |-> "gone.md", size |-> 2, readable |-> FALSE, content |-> <<>>] >>

\* the lengths of the vectors the embedding pipeline may produce: the
\* dimension of all-MiniLM-L6-v2, and that of a model of another size
EmbeddingLengths == {DIMENSION, 2 * DIMENSION}

\* the ids of tasks; 0 is shared by the tasks of the unbounded stream
TaskIds == 0..MaxTasks

----------------------------------------------------------------------------
(* components/faiss-vectorizer: addTask *)

\* the comparator of taskQueue.sort: (a, b) => b.priority - a.priority
ComparePriority(a, b) == b.priority - a.priority

\* an unstable sort: an element is placed before the elements it ties with
RECURSIVE InsertSorted_Unstable(_, _)
InsertSorted_Unstable(sorted, t) ==
    Bind(sorted, LAMBDA s :
        IF s = <<>> THEN <<t>>
        ELSE IF ComparePriority(Head(s), t) >= 0 THEN <<t>> \o s
        ELSE <<Head(s)>> \o InsertSorted_Unstable(Tail(s), t))

\* Array.prototype.sort is stable: an element is placed behind every element
\* that the comparator does not order after it
RECURSIVE InsertSorted(_, _)
InsertSorted(sorted, t) ==
    Bind(sorted, LAMBDA s :
        IF s = <<>> THEN <<t>>
        ELSE IF ComparePriority(Head(s), t) > 0 THEN <<t>> \o s
        ELSE <<Head(s)>> \o InsertSorted(Tail(s), t))

RECURSIVE SortQueue(_)
SortQueue(queue) ==
    Bind(queue, LAMBDA q :
        IF q = <<>> THEN <<>>
        ELSE InsertSorted(SortQueue(SubSeq(q, 1, Len(q) - 1)), q[Len(q)]))

\* addTask without its sort: the task stays at the end of the queue
addTask_NoSort(queue, task, id) ==
    Append(queue,
        [id |-> id, type |-> task.type, content |-> task.content,
         sourcePath |-> task.sourcePath, priority |-> task.priority])

\* addTask(task) with the generated id: the queue afterwards
addTask(queue, task, id) ==
    SortQueue(Append(queue,
        [id |-> id, type |-> task.type, content |-> task.content,
         sourcePath |-> task.sourcePath, priority |-> task.priority]))

----------------------------------------------------------------------------
(* components/faiss-vectorizer: indexWorkspace *)

\* a for loop that is left at the first file whose reading fails
RECURSIVE IndexFiles_StopsAtError(_, _, _, _, _, _)
IndexFiles_StopsAtError(files, queue, n, i, indexed, errors) ==
    IF i > Len(files)
    THEN [queue |-> queue, accepted |-> n, indexed |-> indexed, errors |-> errors]
    ELSE LET file == files[i]
         IN  IF file.size > MaxFileSize
             THEN IndexFiles_StopsAtError(files, queue, n, i + 1, indexed, errors)
             ELSE IF ~file.readable
             THEN [queue |-> queue, accepted |-> n, indexed |-> indexed, errors |-> errors + 1]
             ELSE IndexFiles_StopsAtError(files,
                             addTask(queue,
                                     [type |-> "file", content |-> file.content,
                                      sourcePath |-> file.name, priority |-> WorkspacePriority],
                                     n + 1),
                             n + 1, i + 1, indexed + 1, errors)

\* the for loop of indexWorkspace over the listing `files` from file i on: the
\* queue, the number of ids handed out and the two counters
RECURSIVE IndexFiles(_, _, _, _, _, _)
IndexFiles(files, queue, n, i, indexed, errors) ==
    IF i > Len(files)
    THEN [queue |-> queue, accepted |-> n, indexed |-> indexed, errors |-> errors]
    ELSE LET file == files[i]
         IN  IF file.size > MaxFileSize
             THEN IndexFiles(files, queue, n, i + 1, indexed, errors)
             ELSE IF ~file.readable
             THEN IndexFiles(files, queue, n, i + 1, indexed, errors + 1)
             ELSE IndexFiles(files,
                             addTask(queue,
                                     [type |-> "file", content |-> file.content,
                                      sourcePath |-> file.name, priority |-> WorkspacePriority],
                                     n + 1),
                             n + 1, i + 1, indexed + 1, errors)

indexWorkspace(queue, n) == IndexFiles(MemoryFiles, queue, n, 1, 0, 0)

\* the number of tasks one run of indexWorkspace queues
WorkspaceTasks == indexWorkspace(<<>>, 0).accepted

----------------------------------------------------------------------------
(* components/faiss-vectorizer: processTask up to its first await *)

\* sourcePath.endsWith('.md')
EndsWithMd(path) == path \in {MemoryFiles[i].name : i \in 1..Len(MemoryFiles)}

\* the switch on task.type: the chunks, or that the type is unknown, or that
\* the chunking threw (task.sourcePath.endsWith of a task without sourcePath)
ChunkByType(type, content, sourcePath) ==
    LET plain == chunkText(content, ChunkSize, ChunkOverlap)
        tag(chunks, kind) ==
            [ k \in 1..Len(chunks) |->
                [text |-> chunks[k].text, offset |-> chunks[k].offset,
                 sourcePath |-> sourcePath, type |-> kind] ]
    IN  CASE type = "text" ->
               [status |-> "chunked", chunks |-> tag(plain, "text")]
          [] type = "file" /\ sourcePath = "undefined" ->
               [status |-> "threw", chunks |-> <<>>]
          [] type = "file" /\ EndsWithMd(sourcePath) ->
               [status |-> "chunked",
                chunks |-> tag(chunkMarkdown(content, ChunkSize, ChunkOverlap), "markdown")]
          [] type = "file" ->
               [status |-> "chunked", chunks |-> tag(plain, "text")]
          [] type = "conversation" ->
               [status |-> "chunked", chunks |-> tag(plain, "conversation")]
          [] OTHER ->
               [status |-> "unknownType", chunks |-> <<>>]

\* the type, content and sourcePath of every task of the model
TaskShapes ==
    { [type |-> t.type, content |-> t.content, sourcePath |-> t.sourcePath] :
        t \in TaskInputs \cup {FloodInput} }
    \cup { [type |-> "file", content |-> MemoryFiles[i].content, sourcePath |-> MemoryFiles[i].name] :
             i \in 1..Len(MemoryFiles) }

\* ChunkByType for every task of the model, computed once
ChunkTable == [ t \in TaskShapes |-> ChunkByType(t.type, t.content, t.sourcePath) ]

\* the chunking of a task; randomUUID() gives chunk k of the task the id
\* <<task.id, k>>
Chunking(task) ==
    Bind(ChunkTable[[type |-> task.type, content |-> task.content,
                     sourcePath |-> task.sourcePath]], LAMBDA c :
        [status |-> c.status,
         chunks |-> [ k \in 1..Len(c.chunks) |->
                        [id |-> <<task.id, k>>, text |-> c.chunks[k].text,
                         offset |-> c.chunks[k].offset, sourcePath |-> c.chunks[k].sourcePath,
                         type |-> c.chunks[k].type] ]])

\* processTask(batch[i]) from its call to its first await: the frame of the
\* drain then waits for embedTexts ("embed") or for the return of processTask
\* ("taskDone"); `how` is how the task ended when it has ended
BeginTask(frame, i) ==
    LET task == frame.batch[i]
    IN  Bind(Chunking(task), LAMBDA c :
            IF c.status = "chunked" /\ c.chunks # <<>>
            THEN [frame |-> [frame EXCEPT !.i = i, !.pc = "embed", !.chunks = c.chunks],
                  task |-> task.id, how |-> "embedding"]
            ELSE [frame |-> [frame EXCEPT !.i = i, !.pc = "taskDone", !.chunks = <<>>],
                  task |-> task.id,
                  how |-> IF c.status = "chunked" THEN "noChunks" ELSE c.status])

----------------------------------------------------------------------------
(* Initial state: the store and the service constructed, nothing on disk *)

\* the state of the module variables and of the objects when they are made
ConstructedOn(files) ==
    /\ store = NewStore
    /\ disk = files
    /\ globalStoreSet = FALSE
    /\ embeddingPipeline = FALSE
    /\ globalService = TRUE
    /\ svcStore = FALSE
    /\ initialized = FALSE
    /\ processIntervalId = FALSE
    /\ taskQueue = <<>>
    /\ isProcessing = FALSE
    /\ drains = <<>>
    /\ shutdownPc = "none"
    /\ accepted = 0
    /\ handed = [t \in TaskIds |-> 0]
    /\ outcome = [t \in TaskIds |-> "none"]
    /\ storeCalls = {}
    /\ idlog = NoIds
    /\ cache = NoCache
    /\ clock = StartTime
    /\ hooks = {}
    /\ hooklog = NoHookLog

\* the process starts in a workspace without index files
Constructed == ConstructedOn(EmptyDisk)

Init ==
    /\ Constructed
    /\ last = [act |-> "init"]

\* the history of a task that processTask has taken up and carried to `how`
Taken(r) ==
    /\ handed' = [handed EXCEPT ![r.task] = Min(@ + 1, 2)]
    /\ outcome' = [outcome EXCEPT ![r.task] = r.how]

\* the sequence q with its element at position d replaced by f, or removed
ReplaceAt(q, d, f) == [q EXCEPT ![d] = f]
RemoveAt(q, d) == SubSeq(q, 1, d - 1) \o SubSeq(q, d + 1, Len(q))

\* A continuation is ready to run: a drain or shutdown has passed an await
\* whose promise is already settled (processTask returned, or the synchronous
\* writes of flush are over).  Node runs these continuations before it
\* delivers the next host event or the completion of an embedding call.
ContinuationReady ==
    \/ \E d \in 1..Len(drains) : drains[d].pc \in {"taskDone", "flushed"}
    \/ shutdownPc = "flushed"

----------------------------------------------------------------------------
(* The service: start, addTask, reindex *)

\* createFaissVectorizerService(...).start(): initialize(), startProcessing(),
\* indexWorkspace().  initEmbeddings may fail (embedOk); getVectorStore creates
\* and initializes the process-wide store when there is none yet.
Start(embedOk) ==
    /\ ~ContinuationReady
    /\ ~initialized /\ shutdownPc = "none"
    /\ accepted + WorkspaceTasks <= MaxTasks
    /\ LET init == IF globalStoreSet THEN [store |-> store, threw |-> FALSE]
                   ELSE initialize(NewStore, disk)
           ok   == embedOk /\ ~init.threw
           ws   == indexWorkspace(taskQueue, accepted)
       IN  /\ embeddingPipeline' = (embeddingPipeline \/ embedOk)
           /\ globalStoreSet' = (globalStoreSet \/ embedOk)
           /\ store' = IF embedOk THEN init.store ELSE store
           /\ svcStore' = ok
           /\ initialized' = ok
           /\ processIntervalId' = ok
           /\ taskQueue' = IF ok THEN ws.queue ELSE taskQueue
           /\ accepted' = IF ok THEN ws.accepted ELSE accepted
           /\ last' = [act |-> "start", ok |-> ok]
    /\ UNCHANGED <<disk, globalService, isProcessing, drains, shutdownPc, histVars, hookVars>>

\* addTask(task), called by the memory-guardian.index RPC or any other caller
AddTask(task) ==
    /\ ~ContinuationReady
    /\ accepted < MaxTasks
    /\ accepted' = accepted + 1
    /\ taskQueue' = addTask(taskQueue, task, accepted + 1)
    /\ last' = [act |-> "addTask", id |-> accepted + 1]
    /\ UNCHANGED <<storeVars, globalService, svcStore, initialized, processIntervalId, isProcessing,
                   drains, shutdownPc, histVars, hookVars>>

\* a reindex handler that persists the store itself after indexWorkspace()
Reindex_Flushes ==
    /\ ~ContinuationReady
    /\ accepted + WorkspaceTasks <= MaxTasks
    /\ LET ws == indexWorkspace(taskQueue, accepted)
           r  == flush(store, disk, "ok")
       IN  /\ taskQueue' = ws.queue
           /\ accepted' = ws.accepted
           /\ store' = r.store
           /\ disk' = r.disk
           /\ last' = [act |-> "reindex", indexed |-> ws.indexed, errors |-> ws.errors]
    /\ storeCalls' = storeCalls \cup {<<"flush", "reindex">>}
    /\ UNCHANGED <<globalStoreSet, embeddingPipeline, globalService, svcStore, initialized, processIntervalId,
                   isProcessing, drains, shutdownPc, handed, outcome, idlog, hookVars>>

\* the memory-guardian.reindex RPC: indexWorkspace()
Reindex ==
    /\ ~ContinuationReady
    /\ accepted + WorkspaceTasks <= MaxTasks
    /\ LET ws == indexWorkspace(taskQueue, accepted)
       IN  /\ taskQueue' = ws.queue
           /\ accepted' = ws.accepted
           /\ last' = [act |-> "reindex", indexed |-> ws.indexed, errors |-> ws.errors]
    /\ UNCHANGED <<storeVars, globalService, svcStore, initialized, processIntervalId, isProcessing,
                   drains, shutdownPc, histVars, hookVars>>

----------------------------------------------------------------------------
(* The service: the tick of setInterval and the drain (processTasks) *)

\* the guard of processTasks without its test of isProcessing
SkipsTick_NoGuard == taskQueue = <<>> \/ ~svcStore

\* the guard of processTasks: the tick returns at once
SkipsTick == isProcessing \/ taskQueue = <<>> \/ ~svcStore

\* a tick that finds a drain running, an empty queue or no store.  The timer
\* is let fire at every await of a drain, also at those behind which no
\* timer callback can run in Node, so that a tick meets a drain at its flush.
TickSkip ==
    /\ processIntervalId
    /\ SkipsTick
    /\ last' = [act |-> "tickSkip"]
    /\ UNCHANGED <<storeVars, svcVars, histVars, hookVars>>

\* queue.slice(0, deleteCount) in the place of splice: the queue keeps the batch
splice_AsSlice(queue, deleteCount) ==
    [removed |-> SubSeq(queue, 1, Min(deleteCount, Len(queue))), queue |-> queue]

\* queue.splice(0): the whole queue is removed, whatever deleteCount is
splice_TakesAll(queue, deleteCount) ==
    [removed |-> queue, queue |-> <<>>]

\* queue.splice(0, deleteCount): the elements removed and the queue afterwards
splice(queue, deleteCount) ==
    LET n == Min(deleteCount, Len(queue))
    IN  [removed |-> SubSeq(queue, 1, n), queue |-> SubSeq(queue, n + 1, Len(queue))]

\* a tick that starts a drain: takes the batch off the queue and runs
\* processTask for its first task up to the first await
TickStart ==
    /\ processIntervalId
    /\ ~SkipsTick
    /\ \E taken \in {splice(taskQueue, BatchSize)} :
       \E r \in {BeginTask([batch |-> taken.removed, i |-> 1, pc |-> "start", chunks |-> <<>>,
                            flushCalls |-> 0, flushThrew |-> FALSE], 1)} :
           /\ isProcessing' = TRUE
           /\ taskQueue' = taken.queue
           /\ drains' = Append(drains, r.frame)
           /\ Taken(r)
           /\ last' = [act |-> "tickStart", batch |-> taken.removed]
    /\ UNCHANGED <<storeVars, globalService, svcStore, initialized, processIntervalId, shutdownPc,
                   accepted, storeCalls, idlog, hookVars>>

\* the orders in which n calls of the embedding pipeline may complete
CompletionOrders(n) ==
    { order \in [1..n -> 1..n] : \A i, j \in 1..n : order[i] = order[j] => i = j }

\* texts.length of one pass of the for loop of embedTexts
EmbedBatchSize == 32

\* embeddingPipeline(text, ...): the vector of the text, of the length the
\* loaded model produces
PipelineOutput(text, length) == [length |-> length, of |-> text]

\* a batch whose results are pushed as the calls complete
RECURSIVE PromiseAll_AsCompleted(_, _, _, _, _)
PromiseAll_AsCompleted(texts, from, to, length, order) ==
    IF order = <<>> THEN <<>>
    ELSE (IF Head(order) \in (from + 1)..to
          THEN << PipelineOutput(texts[Head(order)], length) >> ELSE <<>>)
         \o PromiseAll_AsCompleted(texts, from, to, length, Tail(order))

\* await Promise.all(batch.map(...)) for the texts at the positions from..to-1:
\* the calls complete in the order `order`, and each result stands at the
\* place of its text in the batch
PromiseAll(texts, from, to, length, order) ==
    [ k \in 1..(to - from) |-> PipelineOutput(texts[from + k], length) ]

\* the for loop of embedTexts from the position i on
RECURSIVE EmbedBatches(_, _, _, _)
EmbedBatches(texts, i, length, order) ==
    IF i >= Len(texts) THEN <<>>
    ELSE PromiseAll(texts, i, Min(i + EmbedBatchSize, Len(texts)), length, order)
         \o EmbedBatches(texts, i + EmbedBatchSize, length, order)

\* embedTexts(texts) with a pipeline loaded
embedTexts(texts, length, order) ==
    IF Len(texts) = 0 THEN <<>> ELSE EmbedBatches(texts, 0, length, order)

\* embedTexts returns one vector per text, all of the length the loaded model
\* produces, its calls of the pipeline having completed in some order: the
\* chunks go to addBatch, processTask returns
EmbedReturn(d, length) ==
    /\ ~ContinuationReady
    /\ d \in 1..Len(drains)
    /\ drains[d].pc = "embed"
    /\ \E order \in CompletionOrders(Len(drains[d].chunks)) :
       LET frame == drains[d]
           embeddings == embedTexts([k \in 1..Len(frame.chunks) |-> frame.chunks[k].text],
                                    length, order)
           items == [ k \in 1..Len(frame.chunks) |->
                        [chunk |-> frame.chunks[k], embedding |-> embeddings[k]] ]
           r     == addBatch(store, items)
           task  == frame.batch[frame.i].id
       IN  /\ store' = r.store
           /\ storeCalls' = storeCalls \cup {<<"addBatch", "processTasks">>}
           /\ outcome' = [outcome EXCEPT ![task] =
                            IF r.threw THEN "addBatchThrew"
                            ELSE IF Len(r.ids) = Len(items) THEN "indexed" ELSE "skipped"]
           /\ drains' = ReplaceAt(drains, d, [frame EXCEPT !.pc = "taskDone"])
           /\ last' = [act |-> "embedReturn", task |-> task, items |-> items, ids |-> r.ids,
                       order |-> order]
    /\ embeddingPipeline' = TRUE
    /\ UNCHANGED <<disk, globalStoreSet, globalService, svcStore, initialized, processIntervalId, taskQueue,
                   isProcessing, shutdownPc, accepted, handed, idlog, hookVars>>

\* processTask without its try/catch: the rejection of embedTexts leaves
\* the loop of processTasks, whose finally block releases the guard
EmbedFail_Abort(d) ==
    /\ ~ContinuationReady
    /\ d \in 1..Len(drains)
    /\ drains[d].pc = "embed"
    /\ outcome' = [outcome EXCEPT ![drains[d].batch[drains[d].i].id] = "embedFailed"]
    /\ isProcessing' = FALSE
    /\ drains' = RemoveAt(drains, d)
    /\ last' = [act |-> "drainFinish", batch |-> drains[d].batch,
                flushCalls |-> drains[d].flushCalls, threw |-> TRUE]
    /\ UNCHANGED <<storeVars, globalService, svcStore, initialized, processIntervalId, taskQueue,
                   shutdownPc, accepted, handed, storeCalls, idlog, hookVars>>

\* embedTexts rejects: the catch of processTask logs, processTask returns
EmbedFail(d) ==
    /\ ~ContinuationReady
    /\ d \in 1..Len(drains)
    /\ drains[d].pc = "embed"
    /\ LET frame == drains[d]
           task  == frame.batch[frame.i].id
       IN  /\ outcome' = [outcome EXCEPT ![task] = "embedFailed"]
           /\ drains' = ReplaceAt(drains, d, [frame EXCEPT !.pc = "taskDone"])
           /\ last' = [act |-> "embedFail", task |-> task]
    /\ UNCHANGED <<storeVars, globalService, svcStore, initialized, processIntervalId, taskQueue,
                   isProcessing, shutdownPc, accepted, handed, storeCalls, idlog, hookVars>>

\* `await this.processTask(task)` resumes with tasks left in the batch: the
\* loop calls processTask for the next one
DrainNextTask(d) ==
    /\ d \in 1..Len(drains)
    /\ drains[d].pc = "taskDone"
    /\ drains[d].i < Len(drains[d].batch)
    /\ \E r \in {BeginTask(drains[d], drains[d].i + 1)} :
           /\ drains' = ReplaceAt(drains, d, r.frame)
           /\ Taken(r)
           /\ last' = [act |-> "drainNextTask", task |-> r.task]
    /\ UNCHANGED <<storeVars, globalService, svcStore, initialized, processIntervalId, taskQueue,
                   isProcessing, shutdownPc, accepted, storeCalls, idlog, hookVars>>

\* store.flush() inside the for loop of processTasks: called after every task
DrainFlush_PerTask(d, io) ==
    /\ d \in 1..Len(drains)
    /\ drains[d].pc = "taskDone"
    /\ drains[d].flushCalls < 2
    /\ store.isDirty \/ io = "ok"
    /\ LET r == flush(store, disk, io)
       IN  /\ store' = r.store
           /\ disk' = r.disk
           /\ drains' = ReplaceAt(drains, d,
                          [drains[d] EXCEPT !.pc = IF drains[d].i = Len(drains[d].batch)
                                                   THEN "flushed" ELSE "taskDone",
                                            !.flushCalls = @ + 1,
                                            !.flushThrew = r.threw])
           /\ last' = [act |-> "drainFlush", threw |-> r.threw]
    /\ storeCalls' = storeCalls \cup {<<"flush", "processTasks">>}
    /\ UNCHANGED <<globalStoreSet, embeddingPipeline, globalService, svcStore, initialized, processIntervalId,
                   taskQueue, isProcessing, shutdownPc, accepted, handed, outcome, idlog, hookVars>>

\* `await this.processTask(task)` resumes after the last task of the batch:
\* the drain calls store.flush(), whose writes end as io says
DrainFlush(d, io) ==
    /\ d \in 1..Len(drains)
    /\ drains[d].pc = "taskDone"
    /\ drains[d].i = Len(drains[d].batch)
    /\ store.isDirty \/ io = "ok"
    /\ LET r == flush(store, disk, io)
       IN  /\ store' = r.store
           /\ disk' = r.disk
           /\ drains' = ReplaceAt(drains, d, [drains[d] EXCEPT !.pc = "flushed",
                                                 !.flushCalls = @ + 1,
                                                 !.flushThrew = r.threw])
           /\ last' = [act |-> "drainFlush", threw |-> r.threw]
    /\ storeCalls' = storeCalls \cup {<<"flush", "processTasks">>}
    /\ UNCHANGED <<globalStoreSet, embeddingPipeline, globalService, svcStore, initialized, processIntervalId,
                   taskQueue, isProcessing, shutdownPc, accepted, handed, outcome, idlog, hookVars>>

\* processTasks without its finally block: the guard stays set
DrainFinish_KeepsGuard(d) ==
    /\ d \in 1..Len(drains)
    /\ drains[d].pc = "flushed"
    /\ drains' = RemoveAt(drains, d)
    /\ last' = [act |-> "drainFinish", batch |-> drains[d].batch,
                flushCalls |-> drains[d].flushCalls, threw |-> drains[d].flushThrew]
    /\ UNCHANGED <<storeVars, globalService, svcStore, initialized, processIntervalId, taskQueue,
                   isProcessing, shutdownPc, accepted, histVars, hookVars>>

\* processTasks with the release of the guard after the flush in the place of
\* the finally block: a flush that throws leaves the guard set
DrainFinish_ReleaseAfterFlush(d) ==
    /\ d \in 1..Len(drains)
    /\ drains[d].pc = "flushed"
    /\ isProcessing' = drains[d].flushThrew
    /\ drains' = RemoveAt(drains, d)
    /\ last' = [act |-> "drainFinish", batch |-> drains[d].batch,
                flushCalls |-> drains[d].flushCalls, threw |-> drains[d].flushThrew]
    /\ UNCHANGED <<storeVars, globalService, svcStore, initialized, processIntervalId, taskQueue,
                   shutdownPc, accepted, histVars, hookVars>>

\* `await this.store.flush()` resumes or throws: the finally block releases
\* the guard and processTasks ends
DrainFinish(d) ==
    /\ d \in 1..Len(drains)
    /\ drains[d].pc = "flushed"
    /\ isProcessing' = FALSE
    /\ drains' = RemoveAt(drains, d)
    /\ last' = [act |-> "drainFinish", batch |-> drains[d].batch,
                flushCalls |-> drains[d].flushCalls, threw |-> drains[d].flushThrew]
    /\ UNCHANGED <<storeVars, globalService, svcStore, initialized, processIntervalId, taskQueue,
                   shutdownPc, accepted, histVars, hookVars>>

----------------------------------------------------------------------------
(* The service: search and getStats *)

\* search(query, topK) at its call of store.search, after embedText has
\* returned; it throws at once when the service has no store
Search ==
    /\ ~ContinuationReady
    /\ last' = [act |-> "search", threw |-> ~svcStore,
                found |-> IF svcStore THEN getDocumentCount(store) > 0 ELSE FALSE]
    /\ UNCHANGED <<storeVars, svcVars, histVars, hookVars>>

\* getStats()
GetStats ==
    /\ ~ContinuationReady
    /\ last' = [act |-> "getStats", initialized |-> initialized,
                documentCount |-> IF svcStore THEN getDocumentCount(store) ELSE 0,
                queueLength |-> Len(taskQueue), isProcessing |-> isProcessing]
    /\ UNCHANGED <<storeVars, svcVars, histVars, hookVars>>

----------------------------------------------------------------------------
(* components/rag-injector: performRagRetrieval *)

\* getStats() as a function of the state
getStats ==
    [initialized |-> initialized,
     documentCount |-> IF svcStore THEN getDocumentCount(store) ELSE 0,
     queueLength |-> Len(taskQueue), isProcessing |-> isProcessing]

\* performRagRetrieval without the test of documentCount
performRagRetrieval_NoCountCheck ==
    IF ~globalService THEN [returned |-> "null", calls |-> {}, threw |-> FALSE]
    ELSE IF ~getStats.initialized
         THEN [returned |-> "null", calls |-> {}, threw |-> FALSE]
    ELSE IF ~svcStore THEN [returned |-> "null", calls |-> {}, threw |-> FALSE]
    ELSE [returned |-> "pending", calls |-> {"embedText"}, threw |-> FALSE]

\* performRagRetrieval(query, config) up to its first await: null when there
\* is no service, when the service is not initialized or counts no document,
\* and when service.search throws for want of a store (caught); otherwise
\* service.search has called embedText and waits for it
performRagRetrieval ==
    IF ~globalService THEN [returned |-> "null", calls |-> {}, threw |-> FALSE]
    ELSE IF ~getStats.initialized \/ getStats.documentCount = 0
         THEN [returned |-> "null", calls |-> {}, threw |-> FALSE]
    ELSE IF ~svcStore THEN [returned |-> "null", calls |-> {}, threw |-> FALSE]
    ELSE [returned |-> "pending", calls |-> {"embedText"}, threw |-> FALSE]

\* a prompt is built and performRagRetrieval is called; the call of
\* store.search that follows the embedding of the query is the step Search
PerformRagRetrieval ==
    /\ ~ContinuationReady
    /\ \E r \in {performRagRetrieval} :
          last' = [act |-> "performRagRetrieval", returned |-> r.returned,
                   calls |-> r.calls, threw |-> r.threw]
    /\ UNCHANGED <<storeVars, svcVars, histVars, hookVars>>

----------------------------------------------------------------------------
(* hooks/rag-inject: the handler of before_prompt_build *)

\* r.chunk.text.trim().substring(0, 200)
TextKey(text) == Bind(Trim(text), LAMBDA t : SubSeq(t, 1, Min(TextKeyLength, Len(t))))

\* the filter without the Set: a result is dropped only when it repeats the
\* key of the result right before it
RECURSIVE Dedupe_Adjacent(_, _, _)
Dedupe_Adjacent(results, i, seen) ==
    IF i > Len(results) THEN <<>>
    ELSE Bind(TextKey(results[i].chunk.text), LAMBDA textKey :
             IF textKey \in seen THEN Dedupe_Adjacent(results, i + 1, {textKey})
             ELSE <<results[i]>> \o Dedupe_Adjacent(results, i + 1, {textKey}))

\* results.filter with the Set `seen`: the results from position i on whose
\* key was not seen at an earlier position
RECURSIVE Dedupe(_, _, _)
Dedupe(results, i, seen) ==
    IF i > Len(results) THEN <<>>
    ELSE Bind(TextKey(results[i].chunk.text), LAMBDA textKey :
             IF textKey \in seen THEN Dedupe(results, i + 1, seen)
             ELSE <<results[i]>> \o Dedupe(results, i + 1, seen \cup {textKey}))

\* a formatter that keeps the result of the highest rank only
formatRagResultsXml_TopOnly(results) ==
    IF Len(results) = 0 THEN <<>>
    ELSE << [n |-> 1,
             source |-> results[1].chunk.sourcePath,
             relevance |-> Unit - results[1].distance,
             text |-> Trim(results[1].chunk.text)] >>

\* formatRagResultsXml(results): the items between the fixed opening and
\* closing lines, each with its number, source, relevance (in hundredths, as
\* toFixed(2) prints it) and trimmed text; the empty string is <<>>.  No
\* sourcePath of the model lies under /.openclaw/workspace/, so the replace
\* leaves it as it is.
formatRagResultsXml(results) ==
    IF Len(results) = 0 THEN <<>>
    ELSE Bind(Dedupe(results, 1, {}), LAMBDA dedupedResults :
             [idx \in 1..Len(dedupedResults) |->
                 [n |-> idx,
                  source |-> dedupedResults[idx].chunk.sourcePath,
                  relevance |-> Unit - dedupedResults[idx].distance,
                  text |-> Trim(dedupedResults[idx].chunk.text)]])

\* extractUserQuery(event): the content of the last message of role user
\* whose content is not empty, or null (<<>>)
RECURSIVE LastUserContent(_, _)
LastUserContent(messages, i) ==
    IF i < 1 THEN <<>>
    ELSE IF messages[i].role = "user" /\ messages[i].content # <<>>
         THEN messages[i].content
         ELSE LastUserContent(messages, i - 1)

extractUserQuery(event) ==
    IF event.hasMessages THEN LastUserContent(event.messages, Len(event.messages)) ELSE <<>>

\* a cache that answers only at the instant it was written
CacheHit_SameInstant(c, userQuery, now) ==
    /\ c.lastQuery = userQuery
    /\ c.lastResult # <<>>
    /\ now - c.lastTimestamp < 1

\* lastQuery === userQuery && lastResult && (now - lastTimestamp) < CACHE_TTL
CacheHit(c, userQuery, now) ==
    /\ c.lastQuery = userQuery
    /\ c.lastResult # <<>>
    /\ now - c.lastTimestamp < CACHE_TTL

\* the handler up to its await of performRagRetrieval.  It returns at once
\* for an agent that is not allowed, for a query that is missing or short and
\* for a query the cache answers; a retrieval that performRagRetrieval ends
\* with null before its own await makes the handler return nothing.
HookStart(agentId, event) ==
    /\ ~ContinuationReady
    /\ \E userQuery \in {extractUserQuery(event)}, r \in {performRagRetrieval} :
          IF agentId \notin ALLOWED_AGENTS
          THEN /\ last' = [act |-> "hook", agent |-> agentId, query |-> userQuery,
                           returned |-> "nothing", context |-> <<>>, calls |-> {},
                           retrieval |-> "none", threw |-> FALSE]
               /\ UNCHANGED <<hooks, hooklog>>
          ELSE IF userQuery = <<>> \/ Len(userQuery) < MIN_QUERY_LENGTH
          THEN /\ last' = [act |-> "hook", agent |-> agentId, query |-> userQuery,
                           returned |-> "nothing", context |-> <<>>, calls |-> {},
                           retrieval |-> "none", threw |-> FALSE]
               /\ UNCHANGED <<hooks, hooklog>>
          ELSE IF CacheHit(cache, userQuery, clock)
          THEN /\ last' = [act |-> "hook", agent |-> agentId, query |-> userQuery,
                           returned |-> "context", context |-> cache.lastResult, calls |-> {},
                           retrieval |-> "none", threw |-> FALSE]
               /\ UNCHANGED <<hooks, hooklog>>
          ELSE IF r.returned = "null"
          THEN /\ last' = [act |-> "hook", agent |-> agentId, query |-> userQuery,
                           returned |-> "nothing", context |-> <<>>, calls |-> r.calls,
                           retrieval |-> "null", threw |-> FALSE]
               /\ hooklog' = [hooklog EXCEPT !.asked = @ \cup {userQuery},
                                             !.missed = @ \cup {userQuery},
                                             !.since = @ \cup {userQuery}]
               /\ UNCHANGED hooks
          ELSE /\ [query |-> userQuery, now |-> clock] \notin hooks
               /\ hooks' = hooks \cup {[query |-> userQuery, now |-> clock]}
               /\ hooklog' = [hooklog EXCEPT
                                 !.asked = @ \cup {userQuery},
                                 !.fresh = @ \cup {[query |-> userQuery, now |-> clock]}]
               /\ last' = [act |-> "hook", agent |-> agentId, query |-> userQuery,
                           returned |-> "pending", context |-> <<>>, calls |-> r.calls,
                           retrieval |-> "pending", threw |-> FALSE]
    /\ UNCHANGED <<storeVars, svcVars, histVars, cache, clock>>

\* the handler with Date.now() read anew where the cache is written, in the
\* place of the `now` taken before the retrieval
HookEmbedReturn_StampsAtWrite(h, length, tie) ==
    /\ h \in hooks
    /\ hooks' = hooks \ {h}
    /\ \E r \in {IF length # DIMENSION THEN [threw |-> TRUE, results |-> <<>>]
                 ELSE search(store, [length |-> length, of |-> h.query], HookTopK, tie)} :
          IF r.threw \/ Len(r.results) = 0
          THEN /\ last' = [act |-> "hookReturn", query |-> h.query, returned |-> "nothing",
                           context |-> <<>>, calls |-> {"embedText", "search"},
                           retrieval |-> IF r.threw THEN "null" ELSE "empty", threw |-> FALSE]
               /\ hooklog' = [hooklog EXCEPT
                                 !.fresh = @ \ {h},
                                 !.since = IF h \in hooklog.fresh THEN @ \cup {h.query} ELSE @,
                                 !.missed = @ \cup {h.query}]
               /\ UNCHANGED cache
          ELSE \E formattedContext \in {formatRagResultsXml(r.results)} :
               /\ cache' = [lastQuery |-> h.query, lastResult |-> formattedContext,
                            lastTimestamp |-> clock]
               /\ hooklog' = [hooklog EXCEPT
                                 !.entry = [query |-> h.query, at |-> h.now,
                                            context |-> formattedContext],
                                 !.fresh = {}, !.since = {}]
               /\ last' = [act |-> "hookReturn", query |-> h.query, returned |-> "context",
                           context |-> formattedContext, calls |-> {"embedText", "search"},
                           retrieval |-> "results", threw |-> FALSE]
    /\ UNCHANGED <<storeVars, svcVars, histVars, clock>>

\* embedText of the query resolves in the run h: service.search calls
\* store.search (the index rejects a query vector of another length),
\* performRagRetrieval returns the results, or null when the search threw, and
\* the handler returns nothing for null or no result; otherwise it formats
\* the results (every chunk that chunkText makes has a sourcePath, so that
\* this does not throw), writes the three cache variables and returns the
\* context
HookEmbedReturn(h, length, tie) ==
    /\ h \in hooks
    /\ hooks' = hooks \ {h}
    /\ \E r \in {IF length # DIMENSION THEN [threw |-> TRUE, results |-> <<>>]
                 ELSE search(store, [length |-> length, of |-> h.query], HookTopK, tie)} :
          IF r.threw \/ Len(r.results) = 0
          THEN /\ last' = [act |-> "hookReturn", query |-> h.query, returned |-> "nothing",
                           context |-> <<>>, calls |-> {"embedText", "search"},
                           retrieval |-> IF r.threw THEN "null" ELSE "empty", threw |-> FALSE]
               /\ hooklog' = [hooklog EXCEPT
                                 !.fresh = @ \ {h},
                                 !.since = IF h \in hooklog.fresh THEN @ \cup {h.query} ELSE @,
                                 !.missed = @ \cup {h.query}]
               /\ UNCHANGED cache
          ELSE \E formattedContext \in {formatRagResultsXml(r.results)} :
               /\ cache' = [lastQuery |-> h.query, lastResult |-> formattedContext,
                            lastTimestamp |-> h.now]
               /\ hooklog' = [hooklog EXCEPT
                                 !.entry = [query |-> h.query, at |-> h.now,
                                            context |-> formattedContext],
                                 !.fresh = {}, !.since = {}]
               /\ last' = [act |-> "hookReturn", query |-> h.query, returned |-> "context",
                           context |-> formattedContext, calls |-> {"embedText", "search"},
                           retrieval |-> "results", threw |-> FALSE]
    /\ UNCHANGED <<storeVars, svcVars, histVars, clock>>

\* performRagRetrieval without its try/catch, under a handler without its
\* own: the rejection of embedText reaches the caller of the hook
HookEmbedFail_Throws(h) ==
    /\ h \in hooks
    /\ hooks' = hooks \ {h}
    /\ last' = [act |-> "hookReturn", query |-> h.query, returned |-> "threw",
                context |-> <<>>, calls |-> {"embedText"}, retrieval |-> "null",
                threw |-> TRUE]
    /\ hooklog' = [hooklog EXCEPT
                      !.fresh = @ \ {h},
                      !.since = IF h \in hooklog.fresh THEN @ \cup {h.query} ELSE @,
                                 !.missed = @ \cup {h.query}]
    /\ UNCHANGED <<storeVars, svcVars, histVars, cache, clock>>

\* embedText of the query rejects in the run h: the catch of
\* performRagRetrieval returns null and the handler returns nothing
HookEmbedFail(h) ==
    /\ h \in hooks
    /\ hooks' = hooks \ {h}
    /\ last' = [act |-> "hookReturn", query |-> h.query, returned |-> "nothing",
                context |-> <<>>, calls |-> {"embedText"}, retrieval |-> "null",
                threw |-> FALSE]
    /\ hooklog' = [hooklog EXCEPT
                      !.fresh = @ \ {h},
                      !.since = IF h \in hooklog.fresh THEN @ \cup {h.query} ELSE @,
                                 !.missed = @ \cup {h.query}]
    /\ UNCHANGED <<storeVars, svcVars, histVars, cache, clock>>

----------------------------------------------------------------------------
(* The service: shutdown *)

\* stop() of the plugin service: shutdown() up to its first await, which is
\* stopProcessing(), then store.flush() when there is a store, else
\* disposeEmbeddings(); when shutdown returns, stop sets globalService to null
Shutdown(io) ==
    /\ ~ContinuationReady
    /\ shutdownPc = "none"
    /\ processIntervalId' = FALSE
    /\ IF svcStore
       THEN /\ store.isDirty \/ io = "ok"
            /\ LET r == flush(store, disk, io)
               IN  /\ store' = r.store
                   /\ disk' = r.disk
                   /\ shutdownPc' = IF r.threw THEN "done" ELSE "flushed"
                   /\ last' = [act |-> "shutdown", threw |-> r.threw]
            /\ storeCalls' = storeCalls \cup {<<"flush", "shutdown">>}
            /\ UNCHANGED <<embeddingPipeline, globalService>>
       ELSE /\ io = "ok"
            /\ embeddingPipeline' = FALSE
            /\ shutdownPc' = "done"
            /\ globalService' = FALSE
            /\ last' = [act |-> "shutdown", threw |-> FALSE]
            /\ UNCHANGED <<store, disk, storeCalls>>
    /\ UNCHANGED <<globalStoreSet, svcStore, initialized, taskQueue, isProcessing, drains,
                   accepted, handed, outcome, idlog, hookVars>>

\* `await this.store.flush()` of shutdown resumes: disposeEmbeddings(), and
\* stop sets globalService to null
ShutdownFinish ==
    /\ shutdownPc = "flushed"
    /\ embeddingPipeline' = FALSE
    /\ shutdownPc' = "done"
    /\ globalService' = FALSE
    /\ last' = [act |-> "shutdownFinish"]
    /\ UNCHANGED <<store, disk, globalStoreSet, svcStore, initialized, processIntervalId,
                   taskQueue, isProcessing, drains, accepted, histVars, hookVars>>

----------------------------------------------------------------------------
(* The service as a whole *)

Next ==
    \/ \E embedOk \in BOOLEAN : Start(embedOk)
    \/ \E task \in TaskInputs : AddTask(task)
    \/ Reindex
    \/ Search
    \/ GetStats
    \/ TickSkip
    \/ TickStart
    \/ \E d \in 1..Len(drains), length \in EmbeddingLengths : EmbedReturn(d, length)
    \/ \E d \in 1..Len(drains) : EmbedFail(d)
    \/ \E d \in 1..Len(drains) : DrainNextTask(d)
    \/ \E d \in 1..Len(drains), io \in IoOutcomes : DrainFlush(d, io)
    \/ \E d \in 1..Len(drains) : DrainFinish(d)
    \/ \E io \in IoOutcomes : Shutdown(io)
    \/ ShutdownFinish

Spec == Init /\ [][Next]_vars

TypeOK ==
    /\ store.nextId \in Nat
    /\ isProcessing \in BOOLEAN
    /\ accepted \in 0..MaxTasks

----------------------------------------------------------------------------
(* Properties of the task queue and the drain *)

\* the tasks accepted under an id of their own
Tracked == 1..MaxTasks

\* task t is in the pending queue / in the batch of a running drain
HasTask(q, t) == \E k \in 1..Len(q) : q[k].id = t
InQueue(t) == HasTask(taskQueue, t)
InBatch(t) == \E d \in 1..Len(drains) : \E k \in 1..Len(drains[d].batch) : drains[d].batch[k].id = t

\* a step of the timer callback
TickStep == last' # last /\ last'.act \in {"tickSkip", "tickStart"}

\* C1: at most one drain is active at any time, and a tick that fires while a
\* drain is running (suspended on embedTexts or on flush) starts no second
\* drain and removes no task from the queue
C1_AtMostOneDrain ==
    [][ /\ Len(drains') <= 1
        /\ (Len(drains) >= 1 /\ TickStep) => (drains' = drains /\ taskQueue' = taskQueue) ]_vars

\* a tick has fired while the drain waits for embedTexts and tasks are pending
C1_Witness ==
    /\ last.act = "tickSkip"
    /\ Len(drains) = 1 /\ drains[1].pc = "embed"
    /\ taskQueue # <<>>

\* C2: a task is handed to processTask at most once; it has left the queue
\* before its processing starts and never returns to it, whatever the end of
\* its chunking, its embedding call or its addBatch
C2_AtMostOnce ==
    \A t \in Tracked :
        /\ handed[t] <= 1
        /\ InBatch(t) => ~InQueue(t)
        /\ handed[t] >= 1 => ~InQueue(t)

\* a drain is over in which the embedding call of one task failed and the
\* chunking of another threw
C2_Witness ==
    /\ drains = <<>>
    /\ \E t, u \in Tracked :
          /\ handed[t] = 1 /\ outcome[t] = "embedFailed"
          /\ handed[u] = 1 /\ outcome[u] = "threw"

\* the queue is ordered by non-increasing priority
PriorityOrdered(q) == \A i, j \in 1..Len(q) : i < j => q[i].priority >= q[j].priority

\* C4: the pending queue is ordered by non-increasing priority, and tasks of
\* equal priority are in the order in which addTask accepted them (ids are
\* handed out in that order)
C4_QueueOrder ==
    /\ PriorityOrdered(taskQueue)
    /\ \A i, j \in 1..Len(taskQueue) :
          (i < j /\ taskQueue[i].priority = taskQueue[j].priority)
             => taskQueue[i].id < taskQueue[j].id

\* the task accepted last is at the head of the queue, before two tasks of
\* one priority
C4_Witness ==
    /\ Len(taskQueue) = 3
    /\ taskQueue[1].id > taskQueue[2].id
    /\ taskQueue[1].priority > taskQueue[2].priority
    /\ taskQueue[2].priority = taskQueue[3].priority

\* the ways processTask ends
Terminal == {"indexed", "skipped", "embedFailed", "noChunks", "unknownType", "threw",
             "addBatchThrew"}

\* every chunk of the task is a document of the store
ChunksStored(task) ==
    \A k \in 1..Len(Chunking(task).chunks) :
        \E id \in DOMAIN store.documents : store.documents[id] = Chunking(task).chunks[k]

\* C5: a drain calls store.flush() exactly once, after processTask has
\* returned for every task of its batch and never between two tasks, also
\* when tasks of the batch have failed
C5_FlushOncePerDrain ==
    /\ \A d \in 1..Len(drains) :
          /\ drains[d].flushCalls = IF drains[d].pc = "flushed" THEN 1 ELSE 0
          /\ drains[d].pc = "flushed" =>
                \A k \in 1..Len(drains[d].batch) :
                    /\ handed[drains[d].batch[k].id] = 1
                    /\ outcome[drains[d].batch[k].id] \in Terminal
    /\ last.act = "drainFinish" => (last.batch # <<>> /\ last.flushCalls = 1)

\* a drain of two or more tasks, one of which failed, is over
C5_Witness ==
    /\ last.act = "drainFinish"
    /\ Len(last.batch) >= 2
    /\ last.flushCalls = 1
    /\ \E k \in 1..Len(last.batch) : outcome[last.batch[k].id] \in {"embedFailed", "threw"}

\* C6: a task that fails (embedTexts rejects, the chunking yields no chunk,
\* the type is unknown) does not end the drain: when the drain is over
\* processTask has run for every task of the batch, and the chunks of the
\* tasks that were indexed are documents of the store
C6_FailureIsolated ==
    last.act = "drainFinish" =>
        \A k \in 1..Len(last.batch) :
            /\ handed[last.batch[k].id] = 1
            /\ outcome[last.batch[k].id] \in Terminal
            /\ outcome[last.batch[k].id] = "indexed" => ChunksStored(last.batch[k])

\* a drain is over whose first task failed at embedTexts, whose second had no
\* chunk or an unknown type and whose third was indexed
C6_Witness ==
    /\ last.act = "drainFinish"
    /\ Len(last.batch) = 3
    /\ outcome[last.batch[1].id] = "embedFailed"
    /\ outcome[last.batch[2].id] \in {"noChunks", "unknownType"}
    /\ outcome[last.batch[3].id] = "indexed"
    /\ ChunksStored(last.batch[3])

\* what add and addBatch change / what flush changes
AddEffect ==
    \/ store'.nextId # store.nextId
    \/ store'.documents # store.documents
    \/ (~store.index.isNull /\ store'.index # store.index)
FlushEffect == disk' # disk \/ (store.isDirty /\ ~store'.isDirty)

\* C7 as stated: add, addBatch and flush are called by the drain only
C7_OnlyDrainWrites == \A c \in storeCalls : c[2] = "processTasks"

\* C7: add and addBatch are called by the drain only; flush is called by the
\* drain and by shutdown; search, getStats, indexWorkspace and the RPC
\* handlers call none of them and leave the store and its files alone
C7_DrainAndShutdownWrite ==
    [][ /\ storeCalls' \subseteq {<<"addBatch", "processTasks">>, <<"flush", "processTasks">>,
                                  <<"flush", "shutdown">>}
        /\ AddEffect => (last'.act = "embedReturn" /\ isProcessing)
        /\ FlushEffect => last'.act \in {"drainFlush", "shutdown"} ]_vars

\* shutdown has written the files while a drain is suspended on embedTexts
\* and has not flushed yet
C7_Witness ==
    /\ last.act = "shutdown" /\ ~last.threw
    /\ Len(drains) = 1
    /\ disk.metaFile.exists
    /\ <<"flush", "shutdown">> \in storeCalls
    /\ <<"flush", "processTasks">> \notin storeCalls

\* an embedding call of a drain is pending
EmbeddingPending == \E d \in 1..Len(drains) : drains[d].pc = "embed"

\* C8: as long as the embedding call of a drain has not returned, no tick
\* starts another drain, addTask accepts tasks and keeps the queue in
\* priority order, and no queued task is dropped
C8_StalledDrain ==
    [][ (EmbeddingPending /\ last'.act \notin {"embedReturn", "embedFail"}) =>
          /\ drains' = drains /\ isProcessing'
          /\ \A k \in 1..Len(taskQueue) : HasTask(taskQueue', taskQueue[k].id)
          /\ PriorityOrdered(taskQueue')
          /\ last'.act = "addTask" =>
                (Len(taskQueue') = Len(taskQueue) + 1 /\ HasTask(taskQueue', last'.id)) ]_vars

\* addTask has queued a task before an older one while the drain waits
C8_Witness ==
    /\ EmbeddingPending
    /\ last.act = "addTask"
    /\ Len(taskQueue) >= 2
    /\ taskQueue[1].id = last.id

----------------------------------------------------------------------------------------------------------------------------------------
(* The store on its own: a client calls initialize once and then add,       *)
(* addBatch, deleteDocument and clear in any order                          *)

\* the chunks a client hands to the store: two chunks, taken in turn
StoreChunk(k) ==
    [id |-> <<0, k % 2>>, text |-> IF k % 2 = 1 THEN ShortText ELSE <<"a", "b">>,
     offset |-> 0, sourcePath |-> "client", type |-> "text"]

\* a chunk with the text of chunk 1, an id of its own and another offset
TwinChunk == [StoreChunk(1) EXCEPT !.id = <<0, 2>>, !.offset = 3]

\* the embedding of a text, of the given length
Embedding(text, length) == [length |-> length, of |-> text]

\* the items of an addBatch call: chunk k with an embedding of length lens[k]
BatchItems(lens) ==
    [ k \in 1..Len(lens) |->
        [chunk |-> StoreChunk(k), embedding |-> Embedding(StoreChunk(k).text, lens[k])] ]

\* the sequences of embedding lengths of the batches a client hands over
BatchLengths == UNION { [1..n -> EmbeddingLengths] : n \in 0..MaxBatchItems }

\* what MaxVectors bounds: the vectors in the index and the ids handed out
StoreSize == IF Len(store.index.vectors) > store.nextId
             THEN Len(store.index.vectors) ELSE store.nextId

\* initialize(), called once on a new instance as getVectorStore does
StoreInitialize ==
    /\ store = NewStore
    /\ LET r == initialize(store, disk)
       IN  /\ store' = r.store
           /\ last' = [act |-> "initialize", threw |-> r.threw]
    /\ UNCHANGED <<disk, globalStoreSet, embeddingPipeline, svcVars, histVars, hookVars>>

StoreAdd(k, length) ==
    /\ StoreSize < MaxVectors
    /\ \E r \in {add(store, StoreChunk(k), Embedding(StoreChunk(k).text, length))} :
          /\ store' = r.store
          /\ last' = [act |-> "add", threw |-> r.threw, id |-> r.id]
    /\ UNCHANGED <<disk, globalStoreSet, embeddingPipeline, svcVars, handed, outcome,
                   storeCalls, hookVars>>

\* add(chunk, embedding) with the twin of chunk 1
StoreAddTwin ==
    /\ StoreSize < MaxVectors
    /\ \E r \in {add(store, TwinChunk, Embedding(TwinChunk.text, DIMENSION))} :
          /\ store' = r.store
          /\ last' = [act |-> "add", threw |-> r.threw, id |-> r.id]
    /\ UNCHANGED <<disk, globalStoreSet, embeddingPipeline, svcVars, handed, outcome,
                   storeCalls, hookVars>>

StoreAddBatch(lens) ==
    /\ StoreSize + Cardinality({k \in 1..Len(lens) : lens[k] = DIMENSION}) <= MaxVectors
    /\ \E r \in {addBatch(store, BatchItems(lens))} :
          /\ store' = r.store
          /\ last' = [act |-> "addBatch", n |-> Len(lens), threw |-> r.threw, ids |-> r.ids]
    /\ UNCHANGED <<disk, globalStoreSet, embeddingPipeline, svcVars, handed, outcome,
                   storeCalls, hookVars>>

StoreDelete(id) ==
    /\ \E r \in {deleteDocument(store, id)} :
          /\ store' = r.store
          /\ last' = [act |-> "deleteDocument", id |-> id, result |-> r.result]
    /\ UNCHANGED <<disk, globalStoreSet, embeddingPipeline, svcVars, handed, outcome,
                   storeCalls, hookVars>>

StoreClear ==
    /\ store' = clear(store)
    /\ last' = [act |-> "clear"]
    /\ UNCHANGED <<disk, globalStoreSet, embeddingPipeline, svcVars, handed, outcome,
                   storeCalls, hookVars>>

StoreNext ==
    \/ StoreInitialize
    \/ UNCHANGED idlog /\ \E k \in 1..2, length \in EmbeddingLengths : StoreAdd(k, length)
    \/ UNCHANGED idlog /\ \E lens \in BatchLengths : StoreAddBatch(lens)
    \/ UNCHANGED idlog /\ \E id \in 0..MaxVectors : StoreDelete(id)
    \/ UNCHANGED idlog /\ StoreClear

StoreSpec == Init /\ [][StoreNext]_vars

----------------------------------------------------------------------------
(* Properties of add and addBatch *)

\* every vector of the index has the configured dimension
AllOfDimension(st) ==
    \A i \in 1..Len(st.index.vectors) : st.index.vectors[i].length = DIMENSION

\* the documents of `after` are those of `before` and the chunks under ids
NewDocuments(before, after, ids) ==
    /\ DOMAIN after.documents = DOMAIN before.documents \cup ids
    /\ \A id \in DOMAIN before.documents \ ids : after.documents[id] = before.documents[id]

\* C9: on an initialized store, add with an embedding of a wrong length
\* throws and leaves counter, documents, index and dirty flag as they were;
\* with the right length it returns the counter, increments it, appends the
\* vector, records the chunk under the id and marks the store dirty; every
\* vector of the index has the configured dimension
C9_Add ==
    [][ /\ \A k \in 1..2, length \in EmbeddingLengths :
              (~store.index.isNull /\ StoreAdd(k, length)) =>
                 IF length # DIMENSION
                 THEN last'.threw /\ store' = store
                 ELSE /\ ~last'.threw
                      /\ last'.id = store.nextId
                      /\ store'.nextId = store.nextId + 1
                      /\ store'.index.vectors =
                            store.index.vectors \o <<Embedding(StoreChunk(k).text, length)>>
                      /\ NewDocuments(store, store', {store.nextId})
                      /\ store'.documents[store.nextId] = StoreChunk(k)
                      /\ store'.isDirty
        /\ AllOfDimension(store') ]_vars

\* add has thrown on a store that holds a document
C9_Witness ==
    /\ last.act = "add" /\ last.threw
    /\ ~store.index.isNull
    /\ store.nextId >= 1 /\ Len(store.index.vectors) >= 1
    /\ getDocumentCount(store) >= 1

\* the positions of the items of the right length, and the number of them up
\* to position k
ValidItems(lens) == {k \in 1..Len(lens) : lens[k] = DIMENSION}
Rank(lens, k) == Cardinality({j \in ValidItems(lens) : j <= k})

\* C10: on an initialized store addBatch does not throw; it returns one id
\* for each item of the right length, in the order of the items and counting
\* up from the counter, stores these items and no other
C10_AddBatch ==
    [][ \A lens \in BatchLengths :
           (~store.index.isNull /\ StoreAddBatch(lens)) =>
              LET n == Cardinality(ValidItems(lens))
              IN  /\ ~last'.threw
                  /\ Len(last'.ids) = n
                  /\ store'.nextId = store.nextId + n
                  /\ Len(store'.index.vectors) = Len(store.index.vectors) + n
                  /\ NewDocuments(store, store', {last'.ids[j] : j \in 1..n})
                  /\ \A k \in ValidItems(lens) :
                        LET j == Rank(lens, k)
                        IN  /\ last'.ids[j] = store.nextId + j - 1
                            /\ store'.documents[last'.ids[j]] = StoreChunk(k)
                            /\ store'.index.vectors[Len(store.index.vectors) + j] =
                                  Embedding(StoreChunk(k).text, DIMENSION) ]_vars

\* a batch of five items, two of a wrong length, has given three ids and
\* three documents
C10_Witness ==
    /\ last.act = "addBatch" /\ ~last.threw
    /\ last.n = 5
    /\ Len(last.ids) = 3
    /\ getDocumentCount(store) = 3

----------------------------------------------------------------------------
(* The service under a stream of requests that never ends *)

\* addTask(task) for one more request of the endless stream; these tasks
\* share the id 0
FloodTask ==
    /\ ~ContinuationReady
    /\ Len(taskQueue) < MaxQueue
    /\ taskQueue' = addTask(taskQueue, FloodInput, 0)
    /\ last' = [act |-> "floodTask"]
    /\ UNCHANGED <<storeVars, globalService, svcStore, initialized, processIntervalId, isProcessing,
                   drains, shutdownPc, accepted, histVars, hookVars>>

\* the service is started, which queues the workspace files, and is never
\* shut down; requests keep arriving
LiveNext ==
    \/ \E embedOk \in BOOLEAN : Start(embedOk)
    \/ FloodTask
    \/ TickStart
    \/ \E d \in 1..Len(drains), length \in EmbeddingLengths : EmbedReturn(d, length)
    \/ \E d \in 1..Len(drains) : EmbedFail(d)
    \/ \E d \in 1..Len(drains) : DrainNextTask(d)
    \/ \E d \in 1..Len(drains), io \in IoOutcomes : DrainFlush(d, io)
    \/ \E d \in 1..Len(drains) : DrainFinish(d)

\* ticks keep firing, every embedding call settles, every continuation runs
LiveFairness ==
    /\ WF_vars(TickStart)
    /\ WF_vars(\E d \in 1..Len(drains) :
                  \/ \E length \in EmbeddingLengths : EmbedReturn(d, length)
                  \/ EmbedFail(d))
    /\ WF_vars(\E d \in 1..Len(drains) : DrainNextTask(d))
    /\ WF_vars(\E d \in 1..Len(drains), io \in IoOutcomes : DrainFlush(d, io))
    /\ WF_vars(\E d \in 1..Len(drains) : DrainFinish(d))

LiveSpec == Init /\ [][LiveNext]_vars /\ LiveFairness

----------------------------------------------------------------------------
(* Every accepted task is consumed *)

\* the number of places task t holds in the queue and in the batches of the
\* running drains that processTask has not reached yet
QueueCount(t) == Cardinality({k \in 1..Len(taskQueue) : taskQueue[k].id = t})
BatchPending(t) ==
    Cardinality({ <<d, k>> \in (1..Len(drains)) \X (1..BatchSize) :
                    /\ k \in 1..Len(drains[d].batch)
                    /\ drains[d].batch[k].id = t
                    /\ k > drains[d].i })

\* an accepted task is in exactly one place: in the queue, in the batch of a
\* drain that has not reached it, or handed to processTask once
ConsumedOnce ==
    \A t \in Tracked :
        IF t <= accepted THEN QueueCount(t) + BatchPending(t) + handed[t] = 1
        ELSE QueueCount(t) + BatchPending(t) + handed[t] = 0

\* task t waits in the queue of a service that has its store and its timer
Waiting(t) == InQueue(t) /\ svcStore /\ processIntervalId

\* a request of the endless stream is accepted with a higher priority than
\* that of the workspace tasks
HigherPriorityArrival == last.act = "floodTask" /\ FloodInput.priority > WorkspacePriority

\* C3 as stated: with a store, a running timer and embedding calls that
\* return, every accepted task is in the end taken by exactly one drain
C3_EveryTaskConsumed ==
    /\ []ConsumedOnce
    /\ \A t \in Tracked : Waiting(t) ~> (handed[t] = 1)

\* C3: the same, for every task behind which tasks of a higher priority do
\* not keep arriving for ever
C3_ConsumedUnlessOvertaken ==
    /\ []ConsumedOnce
    /\ \A t \in Tracked : ([]<>HigherPriorityArrival) \/ (Waiting(t) ~> (handed[t] = 1))

\* a drain is over that took a workspace task behind tasks of a higher
\* priority, while more requests wait
C3_Witness ==
    /\ last.act = "drainFinish"
    /\ \E k \in 2..Len(last.batch) :
          /\ last.batch[k].id \in Tracked
          /\ handed[last.batch[k].id] = 1
          /\ outcome[last.batch[k].id] \in Terminal
    /\ ConsumedOnce

----------------------------------------------------------------------------
(* The store and its two files: the client also searches and flushes, the   *)
(* process may stop at any time, and the next process starts with a new     *)
(* instance over the files the last one left                                *)

\* the texts a client searches for: the texts of the stored chunks and a text
\* that shares a character with each of them
QueryTexts == {ShortText, <<"a", "b">>, <<"h", "b">>}

\* the batches the client hands over
ClientBatches == {<<DIMENSION, 2 * DIMENSION, DIMENSION>>}

\* search(queryEmbedding, k) with the embedding of a text
StoreSearch(text, k, tie) ==
    /\ \E r \in {search(store, Embedding(text, DIMENSION), k, tie)} :
          last' = [act |-> "search", text |-> text, k |-> k, threw |-> r.threw,
                   results |-> r.results]
    /\ UNCHANGED <<storeVars, svcVars, histVars, hookVars>>

\* flush(), whose writes end as io says
StoreFlush(io) ==
    /\ store.isDirty \/ io = "ok"
    /\ \E r \in {flush(store, disk, io)} :
          /\ store' = r.store
          /\ disk' = r.disk
          /\ last' = [act |-> "flush", after |-> last.act, dirty |-> store.isDirty,
                      threw |-> r.threw]
    /\ UNCHANGED <<globalStoreSet, embeddingPipeline, svcVars, histVars, hookVars>>

\* the process stops; the next one constructs a new FaissVectorStore
StoreStop ==
    /\ store # NewStore
    /\ idlog.instance = "first"
    /\ store' = NewStore
    /\ idlog' = NextInstance(idlog, "stop")
    /\ last' = [act |-> "stop"]
    /\ UNCHANGED <<disk, globalStoreSet, embeddingPipeline, svcVars, handed, outcome,
                   storeCalls, hookVars>>

\* the process stops in save(): after index.write and before writeFileSync
\* (torn = FALSE), or within writeFileSync, which leaves a part of the JSON
\* text in the metadata file (torn = TRUE)
StoreStopInSave(torn) ==
    /\ store.isDirty /\ ~store.index.isNull
    /\ idlog.instance = "first"
    /\ disk' = [disk EXCEPT !.indexFile = [exists |-> TRUE, vectors |-> store.index.vectors],
                            !.metaFile = IF torn
                                         THEN [exists |-> TRUE, parses |-> FALSE, nextId |-> 0,
                                               documents |-> <<>>]
                                         ELSE @]
    /\ store' = NewStore
    /\ idlog' = NextInstance(idlog, IF torn THEN "stopInWrite" ELSE "stopBetweenWrites")
    /\ last' = [act |-> "stopInSave", torn |-> torn]
    /\ UNCHANGED <<globalStoreSet, embeddingPipeline, svcVars, handed, outcome, storeCalls, hookVars>>

\* the history of the ids after the call that l records
IdsLogged(log, l) ==
    IF l.act = "add" /\ ~l.threw THEN IdsReturned(log, {l.id})
    ELSE IF l.act = "addBatch" /\ ~l.threw THEN IdsReturned(log, {l.ids[k] : k \in 1..Len(l.ids)})
    ELSE IF l.act = "deleteDocument" /\ l.result THEN IdRemoved(log, l.id)
    ELSE IF l.act = "clear" THEN IdsCleared(log)
    ELSE log

\* the call of the step is entered in the history
Logged == idlog' = IdsLogged(idlog, last')

\* the store in one process: the client adds, deletes, clears and searches
SearchNext ==
    \/ StoreInitialize
    \/ (\E k \in 1..2 : StoreAdd(k, DIMENSION)) /\ Logged
    \/ (\E lens \in ClientBatches : StoreAddBatch(lens)) /\ Logged
    \/ (\E id \in 0..MaxVectors : StoreDelete(id)) /\ Logged
    \/ StoreClear /\ Logged
    \/ \E text \in QueryTexts, k \in 1..MaxK, tie \in TieOrders : StoreSearch(text, k, tie)

SearchSpec == Init /\ [][SearchNext]_vars

\* a process and the process that follows it over the same files: the first
\* adds, deletes and flushes and leaves room for a vector of the second, which
\* initializes, adds and searches.  A write that fails after index.write is
\* followed when the process stops with it (StoreStopInSave).
PersistNext ==
    \/ StoreInitialize
    \/ /\ idlog.instance = "first" => StoreSize < MaxVectors - 1
       /\ \E k \in 1..2 : StoreAdd(k, DIMENSION)
       /\ Logged
    \/ idlog.instance = "first" /\ StoreSize < MaxVectors - 1 /\ StoreAddTwin /\ Logged
    \/ /\ idlog.instance = "first" /\ StoreSize < MaxVectors - 1
       /\ \E lens \in ClientBatches : StoreAddBatch(lens)
       /\ Logged
    \/ idlog.instance = "first" /\ (\E id \in 0..MaxVectors : StoreDelete(id)) /\ Logged
    \/ idlog.instance = "second" /\
          \E text \in QueryTexts, k \in 1..MaxK, tie \in TieOrders : StoreSearch(text, k, tie)
    \/ idlog.instance = "first" /\ \E io \in {"ok", "indexWriteFails"} : StoreFlush(io)
    \/ StoreStop
    \/ \E torn \in BOOLEAN : StoreStopInSave(torn)

PersistSpec == Init /\ [][PersistNext]_vars

----------------------------------------------------------------------------
(* Properties of the ids *)

\* the ids the call that made the step has returned, as a sequence
IdsOfCall(l) ==
    IF l.act = "add" /\ ~l.threw THEN <<l.id>>
    ELSE IF l.act = "addBatch" /\ ~l.threw THEN l.ids
    ELSE <<>>

\* a call returns ids that count up and are greater than every id of `before`
Increasing(ids, before) ==
    /\ \A i, j \in 1..Len(ids) : i < j => ids[i] < ids[j]
    /\ \A i \in 1..Len(ids) : \A old \in before : old < ids[i]

\* C11 as stated: an id add or addBatch has returned is never returned again,
\* whatever operations come in between
C11_IdsNeverReused ==
    [][ Increasing(IdsOfCall(last'), idlog.returned) ]_vars

\* C11: between two calls of clear the ids add and addBatch return are
\* strictly increasing, also when documents have been deleted in between
C11_IdsIncreaseUntilClear ==
    [][ Increasing(IdsOfCall(last'), idlog.current) ]_vars

\* add has returned an id greater than the id of a document deleted before
C11_Witness ==
    /\ last.act = "add" /\ ~last.threw
    /\ \E d \in idlog.removed : d < last.id /\ d \notin DOMAIN store.documents
    /\ last.id \in DOMAIN store.documents

----------------------------------------------------------------------------
(* Properties of search *)

\* C12: search(q, k) returns at most min(k, documentCount) results, in
\* non-decreasing order of distance, and none when the store has no document
C12_SearchClampedAndOrdered ==
    (last.act = "search" /\ ~last.threw) =>
        /\ Len(last.results) <= Min(last.k, getDocumentCount(store))
        /\ \A i, j \in 1..Len(last.results) :
              i < j => last.results[i].distance <= last.results[j].distance
        /\ getDocumentCount(store) = 0 => last.results = <<>>

\* a search with k above the number of documents has returned them all, the
\* nearer one first, from an index that holds a deleted vector as well
C12_Witness ==
    /\ last.act = "search" /\ ~last.threw
    /\ last.k > getDocumentCount(store)
    /\ Len(last.results) = 2 /\ getDocumentCount(store) = 2
    /\ Len(store.index.vectors) = 3
    /\ last.results[1].distance < last.results[2].distance
    /\ last.results[1].id > last.results[2].id

\* the ids of the results of the search that made the last step
ResultIds == {last.results[i].id : i \in 1..Len(last.results)}

\* C13 as stated: an id for which deleteDocument has returned true is
\* returned by no later search
C13_DeletedNeverReturned ==
    last.act = "search" => ResultIds \cap idlog.deleted = {}

\* C13: search returns only ids that are in the metadata map; an id for which
\* deleteDocument has returned true is returned by no later search, unless
\* add or addBatch has assigned that id anew in between
C13_DeletedSkipped ==
    last.act = "search" =>
        /\ ResultIds \subseteq DOMAIN store.documents
        /\ ResultIds \cap idlog.removed = {}

\* a search has returned a result although the vector nearest to the query
\* is that of a deleted document
C13_Witness ==
    /\ last.act = "search" /\ Len(last.results) >= 1
    /\ \E d \in idlog.removed :
          /\ d < Len(store.index.vectors)
          /\ store.index.vectors[d + 1].of = last.text
          /\ d \notin DOMAIN store.documents
    /\ last.results[1].distance > 0

----------------------------------------------------------------------------
(* Properties of flush, save and load *)

\* the step is a call that changes the store: an add or addBatch that did not
\* throw, a deleteDocument that returned true, a clear
Mutation(l) ==
    \/ l.act \in {"add", "addBatch"} /\ ~l.threw
    \/ l.act = "deleteDocument" /\ l.result
    \/ l.act = "clear"

\* the two files hold the index, the counter and the documents of st
Persisted(dk, st) ==
    /\ dk.indexFile = [exists |-> TRUE, vectors |-> st.index.vectors]
    /\ dk.metaFile = [exists |-> TRUE, parses |-> TRUE, nextId |-> st.nextId,
                      documents |-> Entries(st.documents)]

\* C14: the store is dirty from a call that changes it until the next save
\* or load; flush on a dirty store writes the index and the metadata and
\* clears the flag (or throws when the first write fails, the store staying
\* dirty); flush on a store that is not dirty writes nothing and changes
\* nothing
C14_FlushIffDirty ==
    [][ /\ Mutation(last') => store'.isDirty
        /\ (store'.isDirty /\ ~store.isDirty) => Mutation(last')
        /\ (store.isDirty /\ ~store'.isDirty) =>
              last'.act \in {"flush", "stop", "stopInSave"}
        /\ last'.act = "flush" =>
              IF ~last'.dirty
              THEN ~store.isDirty /\ disk' = disk /\ store' = store /\ ~last'.threw
              ELSE IF last'.threw
              THEN store' = store /\ disk' = disk
              ELSE /\ store.isDirty
                   /\ Persisted(disk', store)
                   /\ store' = [store EXCEPT !.isDirty = FALSE] ]_vars

\* a flush has found the store clean, the files written by a flush before it
C14_Witness ==
    /\ idlog.instance = "first"
    /\ last.act = "flush" /\ ~last.dirty /\ ~last.threw
    /\ Persisted(disk, store)
    /\ getDocumentCount(store) >= 1

\* a flush that follows an addBatch has written the files
FlushedBatch(l) == l.act = "flush" /\ l.after = "addBatch" /\ l.dirty /\ ~l.threw

\* the store a fresh initialize over the files dk yields has the documents and
\* the counter of st
SameDocuments(dk, st) ==
    \E fresh \in {initialize(NewStore, dk)} :
        /\ ~fresh.threw
        /\ getDocumentCount(fresh.store) = getDocumentCount(st)
        /\ fresh.store.documents = st.documents
        /\ fresh.store.nextId = st.nextId

\* the results of search with the embedding of text and k = 1 on the store a
\* fresh initialize over the files dk yields
SearchFresh(dk, text, tie) ==
    search(initialize(NewStore, dk).store, Embedding(text, DIMENSION), 1, tie).results

\* the vector the index of the files dk ranks first for text has this text
\* and a label that is not among the documents of st
NearestDeleted(dk, st, text, tie) ==
    \E top \in {IndexSearch(dk.indexFile.vectors, Embedding(text, DIMENSION), 1, tie)[1]} :
        top.distance = Unit /\ top.label \notin DOMAIN st.documents

\* C15 as stated: after addBatch, flush and a fresh initialize the count, the
\* documents and the counter are those before the flush, and a search with
\* the embedding of a stored chunk and k = 1 returns that chunk
C15_RoundTripReturnsChunk ==
    [][ FlushedBatch(last') =>
          /\ SameDocuments(disk', store)
          /\ \A id \in DOMAIN store.documents, tie \in TieOrders :
                \E res \in {SearchFresh(disk', store.documents[id].text, tie)} :
                    Len(res) = 1 /\ res[1].chunk = store.documents[id] ]_vars

\* C15: after addBatch, flush and a fresh initialize the count, the documents
\* and the counter are those before the flush; a search with the embedding of
\* a stored chunk and k = 1 returns a chunk with the same text at distance 0,
\* or nothing when the vector ranked first is that of a deleted document
C15_RoundTrip ==
    [][ FlushedBatch(last') =>
          /\ SameDocuments(disk', store)
          /\ \A id \in DOMAIN store.documents, tie \in TieOrders :
                \E res \in {SearchFresh(disk', store.documents[id].text, tie)} :
                    \/ /\ Len(res) = 1 /\ res[1].distance = 0
                       /\ res[1].chunk.text = store.documents[id].text
                    \/ /\ res = <<>>
                       /\ NearestDeleted(disk', store, store.documents[id].text, tie) ]_vars

\* a flush after addBatch has written three documents, two of them with the
\* same text
C15_Witness ==
    /\ FlushedBatch(last)
    /\ Persisted(disk, store)
    /\ getDocumentCount(store) = 3
    /\ store.documents[0] = TwinChunk
    /\ store.documents[1] = StoreChunk(1)

----------------------------------------------------------------------------
(* Properties of initialize *)

\* the counter and the documents of st agree with its index: the counter is
\* the number of vectors, and every document has the vector of its text at
\* the place of its id
AgreesWithIndex(st) ==
    /\ st.nextId = Len(st.index.vectors)
    /\ \A id \in DOMAIN st.documents :
          id < Len(st.index.vectors) /\ st.index.vectors[id + 1].of = st.documents[id].text

\* a search with the embedding of the document id, for as many results as
\* there are documents, returns id at distance 0
FoundUnderOwnId(st, id, tie) ==
    \E res \in {search(st, Embedding(st.documents[id].text, DIMENSION),
                       getDocumentCount(st), tie).results} :
        \E i \in 1..Len(res) : res[i].id = id /\ res[i].distance = 0

\* C16 as stated: when the process has stopped between the two writes of a
\* flush, the store a fresh initialize loads has a counter and documents that
\* agree with its index, and every document added afterwards is found under
\* its own id by a search with its own embedding
C16_StoppedFlushLoadsConsistent ==
    (idlog.instance = "second" /\ idlog.follows = "stopBetweenWrites"
        /\ ~store.index.isNull) =>
        /\ AgreesWithIndex(store)
        /\ \A id \in idlog.returned, tie \in TieOrders : FoundUnderOwnId(store, id, tie)

\* the store initialize leaves when it has loaded the files dk
Loaded(dk) ==
    [index |-> [isNull |-> FALSE, vectors |-> dk.indexFile.vectors],
     documents |-> FromEntries(dk.metaFile.documents), nextId |-> dk.metaFile.nextId,
     isDirty |-> FALSE]

\* C17 as stated: initialize loads the files when both exist and parse,
\* creates an empty store when neither exists, and otherwise (one file
\* without the other, or metadata that do not parse) fails with a load error
\* instead of returning with an empty store
C17_InitializeLoadsCreatesOrFails ==
    last.act = "initialize" =>
        IF disk.indexFile.exists /\ disk.metaFile.exists /\ disk.metaFile.parses
        THEN ~last.threw /\ store = Loaded(disk)
        ELSE IF ~disk.indexFile.exists /\ ~disk.metaFile.exists
        THEN ~last.threw /\ store = [NewStore EXCEPT !.index = NewIndex]
        ELSE last.threw

----------------------------------------------------------------------------
(* Properties of deleteDocument and clear *)

\* C18: deleteDocument(id) returns true exactly when id is in the metadata
\* map; it then removes that entry and no other, the count drops by one, the
\* index and the counter stay as they are, and a second deleteDocument(id)
\* would return false; for an id that is not in the map it returns false and
\* changes nothing
C18_DeleteDocument ==
    [][ last'.act = "deleteDocument" =>
          IF last'.id \in DOMAIN store.documents
          THEN /\ last'.result
               /\ store'.documents = MapDelete(store.documents, last'.id)
               /\ getDocumentCount(store') = getDocumentCount(store) - 1
               /\ store'.index = store.index
               /\ store'.nextId = store.nextId
               /\ ~deleteDocument(store', last'.id).result
          ELSE ~last'.result /\ store' = store ]_vars

\* deleteDocument has returned false for an id it had removed before, whose
\* vector is still in the index, while another document is left
C18_Witness ==
    /\ last.act = "deleteDocument" /\ ~last.result
    /\ last.id \in idlog.removed
    /\ last.id < Len(store.index.vectors)
    /\ getDocumentCount(store) = Len(store.index.vectors) - 1
    /\ getDocumentCount(store) >= 1

\* C19: after clear the count and the counter are 0, the store is dirty and
\* every search returns nothing; the index holds the vectors added since the
\* last clear and no other, and a search returns only documents added since
\* then, each under the id it was given, also when that id was in use before
C19_Clear ==
    [][ /\ last'.act = "clear" =>
              /\ getDocumentCount(store') = 0
              /\ store'.nextId = 0
              /\ store'.isDirty
              /\ \A text \in QueryTexts, k \in 1..MaxK, tie \in TieOrders :
                    search(store', Embedding(text, DIMENSION), k, tie)
                        = [threw |-> FALSE, results |-> <<>>]
        /\ Len(store'.index.vectors) = Cardinality(idlog'.current)
        /\ DOMAIN store'.documents \subseteq idlog'.current
        /\ last'.act = "search" =>
              \A i \in 1..Len(last'.results) :
                  /\ last'.results[i].id \in idlog.current
                  /\ last'.results[i].chunk = store.documents[last'.results[i].id] ]_vars

\* after a clear a search has returned a document under an id that was in
\* use before the clear
C19_Witness ==
    /\ last.act = "search" /\ Len(last.results) >= 1
    /\ idlog.current # idlog.returned
    /\ last.results[1].id \in idlog.current
    /\ Len(store.index.vectors) = 1

----------------------------------------------------------------------------
(* Retrieval beside the service *)

\* the service with its clients, and prompts that ask for retrieval
RetrievalNext ==
    \/ Next
    \/ PerformRagRetrieval

RetrievalSpec == Init /\ [][RetrievalNext]_vars

\* C20: when there is no service, or the service is not initialized, or the
\* store holds no document, performRagRetrieval returns null, has called
\* neither embedText nor the store's search, throws nothing and changes nothing
C20_RetrievalGuards ==
    [][ (/\ last'.act = "performRagRetrieval"
         /\ ~globalService \/ ~initialized \/ getDocumentCount(store) = 0)
        => /\ last'.returned = "null"
           /\ last'.calls = {}
           /\ ~last'.threw
           /\ UNCHANGED <<storeVars, svcVars, histVars, hookVars>> ]_vars

\* retrieval was asked for after stop, the stopped service being initialized
\* over a store with documents
C20_Witness ==
    /\ last.act = "performRagRetrieval" /\ last.returned = "null"
    /\ ~globalService /\ initialized /\ getDocumentCount(store) > 0

----------------------------------------------------------------------------
(* The rag-inject hook beside the service *)

\* the number of steps the clock makes, and of handler runs in flight
MaxAdvances == 2
MaxHooks == 1

\* two user queries that pass the length test
HookQuery  == <<"a", "b", ".", "c", "d">>
OtherQuery == <<"h", "i", "!", "!", "!">>

\* before_prompt_build events: a user message; a user message followed by an
\* assistant message; a user message too short to retrieve for; no messages
HookEvents ==
    { [hasMessages |-> TRUE, messages |-> <<[role |-> "user", content |-> HookQuery]>>],
      [hasMessages |-> TRUE,
       messages |-> <<[role |-> "user", content |-> OtherQuery],
                      [role |-> "assistant", content |-> HookQuery]>>],
      [hasMessages |-> TRUE, messages |-> <<[role |-> "user", content |-> ShortText]>>],
      [hasMessages |-> FALSE, messages |-> <<>>] }

\* ctx.agentId
HookAgents == {"main", "coder"}

\* the memory-guardian.index requests of this scenario: a text, white space
HookTasks == {t \in TaskInputs : t.type \in {"text", "conversation"}}

\* Date.now() moves on
Advance ==
    /\ clock < StartTime + MaxAdvances * ClockStep
    /\ clock' = clock + ClockStep
    /\ last' = [act |-> "advance"]
    /\ UNCHANGED <<storeVars, svcVars, histVars, cache, hooks, hooklog>>

HookNext ==
    \/ \E embedOk \in BOOLEAN : Start(embedOk)
    \/ accepted < MaxTasks - 1 /\ \E task \in HookTasks : AddTask(task)
    \/ TickStart
    \/ \E d \in 1..Len(drains) : EmbedReturn(d, DIMENSION)
    \/ \E d \in 1..Len(drains) : EmbedFail(d)
    \/ \E d \in 1..Len(drains) : DrainNextTask(d)
    \/ \E d \in 1..Len(drains) : DrainFlush(d, "ok")
    \/ \E d \in 1..Len(drains) : DrainFinish(d)
    \/ Shutdown("ok")
    \/ ShutdownFinish
    \/ /\ Cardinality(hooks) < MaxHooks
       /\ \E agentId \in HookAgents, event \in HookEvents : HookStart(agentId, event)
    \/ \E h \in hooks, length \in EmbeddingLengths, tie \in TieOrders : HookEmbedReturn(h, length, tie)
    \/ \E h \in hooks : HookEmbedFail(h)
    \/ Advance

HookSpec == Init /\ [][HookNext]_vars

----------------------------------------------------------------------------
(* Properties of the rag-inject hook *)

\* C21: no run of the hook throws; when the embedding of the query or the
\* search of the store fails, or the retrieval finds nothing, the hook
\* returns no context and leaves the cache, the store and the service as
\* they were
C21_RetrievalFailureIsNoResult ==
    [][ last'.act \in {"hook", "hookReturn"} =>
          /\ ~last'.threw
          /\ last'.retrieval \in {"null", "empty"} =>
                /\ last'.returned = "nothing"
                /\ last'.context = <<>>
                /\ UNCHANGED <<cache, storeVars, svcVars>> ]_vars

\* the embedding of a query has failed over a store that holds documents
C21_Witness ==
    /\ last.act = "hookReturn" /\ last.retrieval = "null"
    /\ last.calls = {"embedText"}
    /\ last.returned = "nothing"
    /\ getDocumentCount(store) > 0

\* the step is a run of the hook for an allowed agent and the query q
HookRuns(l, q) ==
    /\ l.act = "hook"
    /\ l.agent \in ALLOWED_AGENTS
    /\ l.query = q
    /\ Len(q) >= MIN_QUERY_LENGTH

\* C22 as stated, for the time in which the clock has not moved by CACHE_TTL
\* yet, so that every retrieval there was began less than CACHE_TTL ago: a
\* run of the hook for a query retrieved before returns the cached text and
\* calls nothing
C22_RepeatServedFromCache ==
    [][ \A q \in hooklog.asked :
          HookRuns(last', q) /\ clock - StartTime < CACHE_TTL
          => /\ last'.returned = "context"
             /\ last'.context = cache.lastResult
             /\ last'.calls = {} ]_vars

\* C22: a run of the hook for the query of the latest retrieval that returned
\* results, less than CACHE_TTL after that retrieval began, returns the text
\* formatted then, calls neither embedText nor the store and changes nothing
C22_RepeatOfCachedServed ==
    [][ HookRuns(last', hooklog.entry.query) /\ clock - hooklog.entry.at < CACHE_TTL
        => /\ last'.returned = "context"
           /\ last'.context = hooklog.entry.context
           /\ last'.calls = {}
           /\ last'.retrieval = "none"
           /\ UNCHANGED <<cache, hooks, storeVars, svcVars>> ]_vars

\* the hook has answered from the cache some time after the retrieval began
\* whose text it returned
C22_Witness ==
    /\ last.act = "hook" /\ last.returned = "context" /\ last.retrieval = "none"
    /\ last.context = hooklog.entry.context /\ last.context # <<>>
    /\ clock > hooklog.entry.at

\* C23 as stated: the text of the cache is returned only while less than
\* CACHE_TTL has passed since the retrieval began that produced it, and only
\* while no query other than the one asked has been retrieved since
C23_EntryInvalidated ==
    [][ last'.act = "hook" /\ last'.returned = "context" /\ last'.retrieval = "none"
        => /\ last'.context = hooklog.entry.context
           /\ clock - hooklog.entry.at < CACHE_TTL
           /\ hooklog.since \subseteq {last'.query} ]_vars

----------------------------------------------------------------------------
(* formatRagResultsXml on its own *)

\* the greatest number of results in a list
MaxResults == 3

\* a text of n times the character c
Repeat(c, n) == [i \in 1..n |-> c]

\* the texts of the results: two that agree in their first 200 characters and
\* differ after them, the 200 characters alone, a short text with and without
\* white space around it, and another short text
ResultTexts ==
    { Repeat("a", TextKeyLength) \o <<"x">>, Repeat("a", TextKeyLength) \o <<"y">>,
      Repeat("a", TextKeyLength), ShortText, <<" ">> \o ShortText \o <<"\n">>, <<"b">> }

\* the result lists of store.search: distances do not decrease with the rank
ResultLists ==
    UNION { [1..n -> ResultTexts] : n \in 0..MaxResults }

ResultOf(texts, i) ==
    [id |-> i - 1, distance |-> 10 * i,
     chunk |-> [id |-> <<0, i>>, text |-> texts[i], offset |-> 0,
                sourcePath |-> "client", type |-> "text"]]

FormatInit ==
    /\ Constructed
    /\ \E texts \in ResultLists :
          last = [act |-> "results", results |-> [i \in 1..Len(texts) |-> ResultOf(texts, i)]]

\* formatRagResultsXml(results)
Format ==
    /\ last.act = "results"
    /\ last' = [act |-> "format", results |-> last.results,
                out |-> formatRagResultsXml(last.results)]
    /\ UNCHANGED <<storeVars, svcVars, histVars, hookVars>>

FormatSpec == FormatInit /\ [][Format]_vars

\* the ranks of the results that no result of a higher rank shares its key with
FirstOfGroup(results) ==
    { i \in 1..Len(results) :
        \A j \in 1..(i - 1) : TextKey(results[j].chunk.text) # TextKey(results[i].chunk.text) }

\* C24: the formatted output has one entry for every group of results with
\* the same key, made from the result of the group that ranks highest; the
\* entries are in rank order and numbered from 1
C24_OnePerGroupInRankOrder ==
    last.act = "format" =>
        LET kept == FirstOfGroup(last.results)
        IN  /\ Len(last.out) = Cardinality(kept)
            /\ \A i \in kept :
                  LET n == Cardinality({j \in kept : j <= i})
                  IN  /\ last.out[n].n = n
                      /\ last.out[n].text = Trim(last.results[i].chunk.text)
                      /\ last.out[n].relevance = Unit - last.results[i].distance
                      /\ last.out[n].source = last.results[i].chunk.sourcePath

\* three results were formatted of which the first and the last agree in
\* their first 200 characters only, and the last was dropped
C24_Witness ==
    /\ last.act = "format"
    /\ Len(last.results) = 3 /\ Len(last.out) = 2
    /\ last.results[1].chunk.text # last.results[3].chunk.text
    /\ Len(last.results[1].chunk.text) > TextKeyLength
    /\ TextKey(last.results[1].chunk.text) = TextKey(last.results[3].chunk.text)
    /\ last.out[2].text = Trim(last.results[2].chunk.text)

----------------------------------------------------------------------------
(* components/rag-injector: shouldPerformRag *)

\* String.prototype.toLowerCase on the letters of the model
LowerOf == [c \in {"H", "I", "E", "L", "O", "G", "D", "N", "T"} |->
               CASE c = "H" -> "h" [] c = "I" -> "i" [] c = "E" -> "e" [] c = "L" -> "l"
                 [] c = "O" -> "o" [] c = "G" -> "g" [] c = "D" -> "d" [] c = "N" -> "n"
                 [] c = "T" -> "t"]

toLowerCase(s) == [i \in 1..Len(s) |-> IF s[i] \in DOMAIN LowerOf THEN LowerOf[s[i]] ELSE s[i]]

\* a pictograph: one code point outside the basic plane, two UTF-16 units
IsPictograph(c) == c \in {"u1F600", "u1F44D"}

\* \p{Emoji}: the characters with the Unicode property Emoji, which besides
\* the pictographs has the digits, the number sign and the asterisk
IsEmoji(c) == IsPictograph(c) \/ c \in {"0", "1", "2", "3", "4", "5", "6", "7", "8", "9", "#", "*"}

\* String.prototype.length: the number of UTF-16 units
RECURSIVE Length(_)
Length(s) ==
    IF s = <<>> THEN 0 ELSE (IF IsPictograph(Head(s)) THEN 2 ELSE 1) + Length(Tail(s))

\* the greeting list (u4F60 u597D and the like are single CJK characters)
Greetings ==
    { <<"h", "i">>, <<"h", "e", "l", "l", "o">>, <<"h", "e", "y">>,
      <<"u4F60", "u597D">>, <<"u55E8">>, <<"u54C8", "u56C9">>,
      <<"g", "o", "o", "d", " ", "m", "o", "r", "n", "i", "n", "g">>,
      <<"g", "o", "o", "d", " ", "e", "v", "e", "n", "i", "n", "g">>,
      <<"g", "o", "o", "d", " ", "n", "i", "g", "h", "t">>,
      <<"u65E9", "u5B89">>, <<"u5348", "u5B89">>, <<"u665A", "u5B89">>,
      <<"u65E9">>, <<"u665A">> }

\* /^[\p{Emoji}\s]+$/u
EmojiOnly(s) == s # <<>> /\ \A i \in 1..Len(s) : IsEmoji(s[i]) \/ IsSpace(s[i])

\* shouldPerformRag(query)
shouldPerformRag(query) ==
    Bind(toLowerCase(Trim(query)), LAMBDA trimmed :
        IF trimmed # <<>> /\ Head(trimmed) = "/" THEN FALSE
        ELSE IF Length(trimmed) < MIN_QUERY_LENGTH THEN FALSE
        ELSE IF trimmed \in Greetings THEN FALSE
        ELSE IF EmojiOnly(trimmed) THEN FALSE
        ELSE TRUE)

\* a substantive question of 50 characters
Question == <<"w", "h", "y", " ">> \o Repeat("x", 45) \o <<"?">>

\* queries: a body, with or without a leading blank or slash and a trailing
\* blank or question mark
QueryBodies ==
    { <<>>, <<"h", "i">>, <<"a", "b", "c">>, <<"h", "e", "l", "l", "o">>,
      <<"H", "E", "L", "L", "O">>, <<"r", "e", "s", "e", "t">>,
      <<"G", "o", "o", "d", " ", "N", "i", "g", "h", "t">>,
      <<"1", "2", "3", "4", "5">>, <<"2", "0", "2", "4", " ", "#", "1">>,
      <<"u1F600", "u1F600">>, <<"u1F600", " ", "u1F44D", "u1F600">>,
      <<"u4F60", "u597D">>, <<"o", "k", " ", "u1F600", "u1F600">>, Question }
QueryLeads  == { <<>>, <<" ">>, <<"/">> }
QueryTrails == { <<>>, <<" ">>, <<"?">> }

GateInit ==
    /\ Constructed
    /\ \E lead \in QueryLeads, body \in QueryBodies, trail \in QueryTrails :
          last = [act |-> "query", query |-> lead \o body \o trail]

\* shouldPerformRag(query) is called
Gate ==
    /\ last.act = "query"
    /\ last' = [act |-> "shouldPerformRag", query |-> last.query,
                result |-> shouldPerformRag(last.query)]
    /\ UNCHANGED <<storeVars, svcVars, histVars, hookVars>>

GateSpec == GateInit /\ [][Gate]_vars

\* C25 as stated, the query taken without the white space around it: the
\* gate returns false exactly for a query that is empty, shorter than 5
\* characters, begins with the command prefix, is a greeting of the list
\* whatever its case, or consists of pictographs and white space only
C25_GateRejectsExactly ==
    last.act = "shouldPerformRag" =>
        LET q == Trim(last.query)
        IN  last.result = ~( \/ q = <<>>
                             \/ Length(q) < MIN_QUERY_LENGTH
                             \/ Head(q) = "/"
                             \/ toLowerCase(q) \in Greetings
                             \/ \A i \in 1..Len(q) : IsPictograph(q[i]) \/ IsSpace(q[i]) )

\* the step ends a run of the hook for an allowed agent and a query long
\* enough, and not by a failure of the embedding or of the search
Answered(l) ==
    \/ /\ l.act = "hook" /\ l.agent \in ALLOWED_AGENTS
       /\ Len(l.query) >= MIN_QUERY_LENGTH
       /\ l.returned # "pending"
    \/ l.act = "hookReturn" /\ l.retrieval # "null"

\* the documents of the store that are chunks of task t
TaskDocs(t) == {id \in DOMAIN store.documents : store.documents[id].id[1] = t}

\* the texts of the entries of a formatted context
ContextTexts(context) == {context[n].text : n \in 1..Len(context)}

\* what a run of the hook answers, while the service is there and no
\* retrieval has returned a result yet, to a query asked before or not: nothing
\* over an empty store, and once the tasks of `processed` are drained a
\* context that has the text of their chunks (of all of them when the store
\* holds no more documents than a retrieval asks for)
AnswersContent(processed) ==
    Answered(last') /\ globalService /\ hooklog.entry.query = <<>>
    => /\ getDocumentCount(store) = 0 => last'.returned = "nothing"
       /\ \A t \in Tracked :
             outcome[t] \in processed =>
                /\ TaskDocs(t) # {}
                /\ last'.returned = "context"
                /\ getDocumentCount(store) <= HookTopK =>
                      \A id \in TaskDocs(t) :
                          Trim(store.documents[id].text) \in ContextTexts(last'.context)

\* C26 as stated: once no drain is in flight and no embedding has failed,
\* every task that a drain has processed (all tasks have content that is not
\* empty) is answered with its content
C26_AnyContentRetrieved ==
    [][ drains = <<>> /\ (\A t \in Tracked : outcome[t] # "embedFailed")
        => AnswersContent({"indexed", "noChunks"}) ]_vars

\* C26: retrieval over the empty store returns nothing, and every task whose
\* chunks a drain has embedded and stored is answered with its content (even
\* before that drain has ended), also less than CACHE_TTL after a retrieval
\* of the same query returned nothing
C26_IndexedContentRetrieved ==
    [][ AnswersContent({"indexed"}) ]_vars

\* a query that returned nothing is answered with the chunks of a task
\* indexed since, less than CACHE_TTL after that retrieval (the clock has not
\* moved by CACHE_TTL yet)
C26_Witness ==
    /\ last.act = "hookReturn" /\ last.returned = "context"
    /\ hooklog.entry.query = last.query /\ hooklog.entry.context = last.context
    /\ last.query \in hooklog.missed
    /\ clock > StartTime /\ clock - StartTime < CACHE_TTL
    /\ \E t \in Tracked :
          /\ outcome[t] = "indexed"
          /\ \A id \in TaskDocs(t) :
                Trim(store.documents[id].text) \in ContextTexts(last.context)
          /\ Cardinality(TaskDocs(t)) >= 2

----------------------------------------------------------------------------
(* chunkText on its own *)

\* the longest text given to chunkText
MaxLen == 18
\* DEFAULT_CHUNK_SIZE and DEFAULT_CHUNK_OVERLAP, both divided by 32
WideChunkSize == 16
WideChunkOverlap == 2

\* the characters of the texts: a letter, a blank, a full stop
ChunkChars == {"a", " ", "."}

\* the texts of up to MaxLen characters that are letters but for two places
ChunkTexts ==
    {<<>>} \cup
    UNION { { [i \in 1..n |-> IF i = p THEN c ELSE IF i = q THEN d ELSE "a"] :
                 p \in 1..n, q \in 1..n, c \in ChunkChars, d \in ChunkChars } :
            n \in 1..MaxLen }

\* the options: the configuration of the modelled service, and the defaults
ChunkOptions ==
    { [chunkSize |-> ChunkSize, chunkOverlap |-> ChunkOverlap],
      [chunkSize |-> WideChunkSize, chunkOverlap |-> WideChunkOverlap] }

ChunkInit ==
    /\ Constructed
    /\ \E text \in ChunkTexts, options \in ChunkOptions :
          last = [act |-> "text", text |-> text, options |-> options]

\* chunkText(text, options)
Chunk ==
    /\ last.act = "text"
    /\ last' = [act |-> "chunkText", text |-> last.text, options |-> last.options,
                chunks |-> chunkText(last.text, last.options.chunkSize,
                                     last.options.chunkOverlap)]
    /\ UNCHANGED <<storeVars, svcVars, histVars, hookVars>>

ChunkSpec == ChunkInit /\ [][Chunk]_vars

\* C27 as stated: for every text that is not empty and not longer than the
\* target size, chunkText returns one chunk, the trimmed text at offset 0
C27_ShortTextOneChunk ==
    last.act = "chunkText" /\ last.text # <<>> /\ Len(last.text) <= last.options.chunkSize
        => last.chunks = << [text |-> Trim(last.text), offset |-> 0] >>

\* C27: for every text that has a character other than white space and is
\* not longer than the target size, chunkText returns one chunk, the trimmed
\* text at offset 0
C27_ShortTextWithContentOneChunk ==
    last.act = "chunkText" /\ Trim(last.text) # <<>> /\ Len(last.text) <= last.options.chunkSize
        => last.chunks = << [text |-> Trim(last.text), offset |-> 0] >>

\* a text as long as the target size, with white space at either end, came
\* back as one chunk without it
C27_Witness ==
    /\ last.act = "chunkText"
    /\ Len(last.text) = last.options.chunkSize
    /\ IsSpace(last.text[1]) /\ IsSpace(last.text[Len(last.text)])
    /\ Len(last.chunks) = 1
    /\ last.chunks[1].offset = 0
    /\ Len(last.chunks[1].text) = Len(last.text) - 2

\* the 0-based positions of the text that the chunk holds: its text begins
\* at the first character of its window that is not white space
ChunkPositions(text, chunk, chunkSize) ==
    LET window == Slice(text, chunk.offset, Min(chunk.offset + chunkSize, Len(text)))
        first  == chunk.offset + (Len(window) - Len(TrimStart(window)))
    IN  first .. (first + Len(chunk.text) - 1)

\* the positions of the text that no chunk holds though their character is
\* not white space
LostPositions(text, chunks, chunkSize) ==
    { p \in 0..(Len(text) - 1) :
        /\ ~IsSpace(text[p + 1])
        /\ \A k \in 1..Len(chunks) : p \notin ChunkPositions(text, chunks[k], chunkSize) }

\* C28: the chunks of a text longer than the target size are in increasing
\* order of offset, and every character of the text that is not white space
\* lies in at least one chunk
C28_ChunksCoverInput ==
    last.act = "chunkText" /\ Len(last.text) > last.options.chunkSize
        => /\ \A k \in 1..(Len(last.chunks) - 1) :
                 last.chunks[k].offset < last.chunks[k + 1].offset
           /\ LostPositions(last.text, last.chunks, last.options.chunkSize) = {}

----------------------------------------------------------------------------
(* The store with a metadata file that cannot be written *)

\* the clients of PersistNext, and a flush in which index.write succeeds and
\* writeFileSync throws
WriteFailNext ==
    \/ PersistNext
    \/ idlog.instance = "first" /\ StoreFlush("metaWriteFails")

WriteFailSpec == Init /\ [][WriteFailNext]_vars

\* C29: in every state of an initialized store that no stop within save has
\* led to, the id counter is the number of vectors of the index and every key
\* of the id-to-chunk map is smaller than the counter
C29_CounterIsIndexSize ==
    ~store.index.isNull /\ idlog.follows \in {"nothing", "stop"}
        => /\ store.nextId = Len(store.index.vectors)
           /\ \A id \in DOMAIN store.documents : id < store.nextId

----------------------------------------------------------------------------
(* Properties of shutdown *)

\* the step calls embedTexts: a drain comes to stand at its embedding call
CallsEmbedTexts ==
    \E d \in 1..Len(drains') :
        /\ drains'[d].pc = "embed"
        /\ d \in 1..Len(drains) => drains[d].pc # "embed"

\* C30: when shutdown resolves the store has no change that is not
\* persisted, and once it has resolved (stop has then set globalService to
\* null) no step changes the store, flushes it or calls embedTexts, also
\* when a drain stood at its embedding call while shutdown ran
C30_QuietAfterShutdown ==
    [][ /\ last'.act = "shutdownFinish" => ~store'.isDirty
        /\ shutdownPc = "done" /\ ~globalService =>
              /\ store' = store
              /\ last'.act \notin {"embedReturn", "drainFlush"}
              /\ ~CallsEmbedTexts ]_vars

----------------------------------------------------------------------------
(* The service started on files a stop within save has left *)

\* the files after a stop within writeFileSync: an index of one vector and
\* metadata that do not parse (the disk' of StoreStopInSave(TRUE))
TornDisk ==
    [indexFile |-> [exists |-> TRUE, vectors |-> <<Embedding(ShortText, DIMENSION)>>],
     metaFile  |-> [exists |-> TRUE, parses |-> FALSE, nextId |-> 0, documents |-> <<>>]]

RestartInit ==
    /\ \E files \in {EmptyDisk, TornDisk} : ConstructedOn(files)
    /\ last = [act |-> "init"]

RestartSpec == RestartInit /\ [][Next]_vars

\* C31: a start of the service that succeeds has got from getVectorStore a
\* store on which initialize() has completed: the store that initialize
\* makes of the files, initialize not having thrown
C31_OnlyInitializedStore ==
    [][ last'.act = "start" /\ last'.ok =>
          \E r \in {initialize(NewStore, disk)} : ~r.threw /\ store' = r.store ]_vars

----------------------------------------------------------------------------
(* Properties of search on a store with deleted documents *)

\* the distance of the vector with the label p from the query of the last search
DistanceOf(p) ==
    Unit - InnerProduct(store.index.vectors[p + 1], Embedding(last.text, DIMENSION))

\* the labels of the index
Labels == 0..(Len(store.index.vectors) - 1)

\* the sets of n labels (all labels if there are fewer) none of which is
\* farther from the query than a label outside the set
Nearest(n) ==
    { T \in SUBSET Labels :
        /\ Cardinality(T) = Min(n, Cardinality(Labels))
        /\ \A p \in T, q \in Labels \ T : DistanceOf(p) <= DistanceOf(q) }

\* the last step is a search that did not throw, on a store with a document
SearchedLive == last.act = "search" /\ ~last.threw /\ getDocumentCount(store) >= 1

\* C32 as stated: a search on a store with a live document returns
\* min(k, documentCount) results, and no live document it leaves out is
\* nearer to the query than one it returns
C32_NearestLiveReturned ==
    SearchedLive =>
        /\ Len(last.results) = Min(last.k, getDocumentCount(store))
        /\ \A id \in DOMAIN store.documents \ ResultIds, i \in 1..Len(last.results) :
              last.results[i].distance <= DistanceOf(id)

\* C32: a search on a store with a live document returns the live documents
\* among the min(k, documentCount) vectors of the index nearest to the query,
\* each once and with its distance and chunk; when the index holds the
\* vectors of the live documents only, these are min(k, documentCount)
\* results and the nearest live documents
C32_LiveAmongNearestVectors ==
    SearchedLive =>
        LET n == Min(last.k, getDocumentCount(store))
        IN  /\ \E T \in Nearest(n) : ResultIds = T \cap DOMAIN store.documents
            /\ Cardinality(ResultIds) = Len(last.results)
            /\ \A i \in 1..Len(last.results) :
                  /\ last.results[i].distance = DistanceOf(last.results[i].id)
                  /\ last.results[i].chunk = store.documents[last.results[i].id]
            /\ DOMAIN store.documents = Labels =>
                  /\ Len(last.results) = n
                  /\ \A id \in DOMAIN store.documents \ ResultIds, i \in 1..Len(last.results) :
                        last.results[i].distance <= DistanceOf(id)

\* a search for two of two live documents has returned one only: the vector
\* of a deleted document is among the two nearest to the query
C32_Witness ==
    /\ SearchedLive
    /\ last.k >= 2 /\ getDocumentCount(store) = 2 /\ Len(last.results) = 1
    /\ \E d \in Labels \ DOMAIN store.documents :
          /\ d \in idlog.removed
          /\ DistanceOf(d) <= last.results[1].distance

----------------------------------------------------------------------------
(* Properties of the drain guard *)

\* C33: whenever a drain ends, whether its tasks succeeded or failed and
\* whether flush returned or threw, isProcessing is false and no drain is
\* left, so that the guard of processTasks lets a tick with pending tasks
\* start a new drain
C33_GuardReleased ==
    [][ last'.act = "drainFinish" =>
          /\ ~isProcessing'
          /\ drains' = <<>>
          /\ taskQueue' # <<>> => ~SkipsTick' ]_vars

\* a drain has ended with a flush that threw and with a task whose embedding
\* failed; tasks are pending, the timer runs and the guard is free
C33_Witness ==
    /\ last.act = "drainFinish" /\ last.threw
    /\ \E k \in 1..Len(last.batch) : outcome[last.batch[k].id] = "embedFailed"
    /\ taskQueue # <<>> /\ processIntervalId
    /\ ~isProcessing /\ ~SkipsTick

----------------------------------------------------------------------------
(* Properties of workspace indexing *)

\* the ids of the documents whose chunk comes from the file
DocsOfFile(file) ==
    { id \in DOMAIN store.documents : store.documents[id].sourcePath = file.name }

\* the number of chunks of the file (only indexWorkspace queues file tasks
\* with the path of a memory file)
ChunksOfFile(file) ==
    Len(ChunkTable[[type |-> "file", content |-> file.content, sourcePath |-> file.name]].chunks)

\* C34: however often indexWorkspace has run (at the start of the service
\* and through the reindex RPC) and whatever has been drained, the store
\* holds the chunks of no memory file more than once
C34_FileChunksStoredOnce ==
    \A i \in 1..Len(MemoryFiles) :
        Cardinality(DocsOfFile(MemoryFiles[i])) <= ChunksOfFile(MemoryFiles[i])

----------------------------------------------------------------------------
(* Concurrent runs of the rag-inject hook *)

\* the runs of the handler that wait for their retrieval at one time
MaxRacingHooks == 2

\* the files an earlier process has saved with one document in the store
IndexedDisk ==
    save(addBatch(initialize(NewStore, EmptyDisk).store, BatchItems(<<DIMENSION>>)).store,
         EmptyDisk, "ok").disk

RaceInit ==
    /\ ConstructedOn(IndexedDisk)
    /\ last = [act |-> "init"]

\* the service loads the files and drains the task of its workspace, while
\* prompts of two queries are built and the clock moves on
RaceNext ==
    \/ Start(TRUE)
    \/ TickStart
    \/ \E d \in 1..Len(drains) : EmbedReturn(d, DIMENSION)
    \/ \E d \in 1..Len(drains) : DrainFlush(d, "ok")
    \/ \E d \in 1..Len(drains) : DrainFinish(d)
    \/ /\ Cardinality(hooks) < MaxRacingHooks
       /\ \E event \in HookEvents : HookStart("main", event)
    \/ \E h \in hooks, tie \in TieOrders : HookEmbedReturn(h, DIMENSION, tie)
    \/ \E h \in hooks : HookEmbedFail(h)
    \/ Advance

RaceSpec == RaceInit /\ [][RaceNext]_vars

\* C35: whenever the cache is written, its three variables come from one
\* run of the handler: the query of that run, the text formatted from the
\* results of the search for that query, and the time at which that run began
C35_CacheFromOneRun ==
    [][ cache' # cache =>
          \E h \in hooks, tie \in TieOrders :
              /\ h \notin hooks'
              /\ cache' = [lastQuery |-> h.query,
                           lastResult |-> formatRagResultsXml(
                               search(store, Embedding(h.query, DIMENSION), HookTopK, tie).results),
                           lastTimestamp |-> h.now]
              /\ cache'.lastResult # <<>> ]_vars

\* a run has written the cache while a run for another query that began
\* earlier still waits, and after the clock has moved on since its own start
C35_Witness ==
    /\ last.act = "hookReturn" /\ last.returned = "context"
    /\ cache.lastQuery = last.query /\ cache.lastResult = last.context
    /\ cache.lastTimestamp < clock
    /\ \E h \in hooks : h.query # cache.lastQuery /\ h.now < cache.lastTimestamp

----------------------------------------------------------------------------
(* Properties of the pairing of chunks and embeddings *)

\* C36: every document of the store stands in the index, under its id, with
\* the embedding of its own text, and the chunks a drain has just added are
\* those of its task, in their order, under the ids addBatch has returned
C36_StoredWithOwnEmbedding ==
    /\ \A id \in DOMAIN store.documents :
          /\ id < Len(store.index.vectors)
          /\ store.index.vectors[id + 1] = PipelineOutput(store.documents[id].text, DIMENSION)
    /\ last.act = "embedReturn" =>
          /\ Len(last.ids) \in {0, Len(last.items)}
          /\ \A k \in 1..Len(last.ids) : store.documents[last.ids[k]] = last.items[k].chunk

\* a drain has added two chunks of different texts whose embedding calls
\* completed in the reverse of their order
C36_Witness ==
    /\ last.act = "embedReturn"
    /\ Len(last.ids) = 2 /\ last.order = <<2, 1>>
    /\ store.documents[last.ids[1]].text # store.documents[last.ids[2]].text
    /\ store.index.vectors[last.ids[2] + 1].of = store.documents[last.ids[2]].text

----------------------------------------------------------------------------
(* chunkText, one pass of its loop at a time *)

\* the chunks up to which the loop of chunkText is followed
MaxChunks == 8

\* the options of ChunkOptions, and an overlap as large as the chunk size
LoopOptions ==
    ChunkOptions \cup {[chunkSize |-> ChunkSize, chunkOverlap |-> ChunkSize]}

LoopInit ==
    /\ Constructed
    /\ \E text \in ChunkTexts, options \in LoopOptions :
          last = [act |-> "call", text |-> text, options |-> options]

\* a step that moves the cursor by a quarter of the chunk size less the overlap
WindowStep_Quarter(chunkSize, chunkOverlap) == chunkSize \div 4 - chunkOverlap

\* const step = chunkSize - chunkOverlap
WindowStep(chunkSize, chunkOverlap) == chunkSize - chunkOverlap

\* chunkText(text, options) up to its while loop: it returns for a text
\* without content and for a text of one chunk, else the cursor is at 0
ChunkEnter ==
    /\ last.act = "call"
    /\ last' = IF last.text = <<>> \/ Trim(last.text) = <<>>
               THEN [act |-> "return", text |-> last.text, options |-> last.options,
                     chunks |-> <<>>]
               ELSE IF Len(last.text) <= last.options.chunkSize
               THEN [act |-> "return", text |-> last.text, options |-> last.options,
                     chunks |-> << [text |-> Trim(last.text), offset |-> 0] >>]
               ELSE [act |-> "window", text |-> last.text, options |-> last.options,
                     offset |-> 0, chunks |-> <<>>]
    /\ UNCHANGED <<storeVars, svcVars, histVars, hookVars>>

\* one pass of the while loop: the window at the cursor is cut, trimmed and
\* pushed unless it is blank, the cursor moves by step, and the loop is left
\* when the cursor has reached the end of the text
ChunkIterate ==
    /\ last.act = "window"
    /\ last.offset >= 0
    /\ Len(last.chunks) < MaxChunks
    /\ LET text    == last.text
           offset  == last.offset
           endPos  == Min(offset + last.options.chunkSize, Len(text))
           trimmed == Trim(adjustChunkBoundary(Slice(text, offset, endPos), text, offset, endPos))
           chunks  == last.chunks \o
                      (IF trimmed # <<>> THEN << [text |-> trimmed, offset |-> offset] >>
                       ELSE <<>>)
           next    == offset + WindowStep(last.options.chunkSize, last.options.chunkOverlap)
       IN  last' = IF next >= Len(text)
                   THEN [act |-> "return", text |-> text, options |-> last.options,
                         chunks |-> chunks]
                   ELSE [act |-> "window", text |-> text, options |-> last.options,
                         offset |-> next, chunks |-> chunks]
    /\ UNCHANGED <<storeVars, svcVars, histVars, hookVars>>

LoopNext == ChunkEnter \/ ChunkIterate

\* a call of chunkText runs on as long as it has a step to take
LoopSpec == LoopInit /\ [][LoopNext]_vars /\ WF_vars(LoopNext)

----------------------------------------------------------------------------
(* Properties of the batch a drain takes *)

\* C38: the tick that starts a drain takes the first min(10, n) of the n
\* queued tasks as the batch of the drain, none of them of a lower priority
\* than a task it leaves, and leaves the others queued in their order; a
\* task added while a drain runs is queued and changes no batch
C38_BatchFromFront ==
    [][ /\ last'.act = "tickStart" =>
              LET n == Len(taskQueue)
                  m == Min(10, n)
              IN  /\ last'.batch = SubSeq(taskQueue, 1, m)
                  /\ drains' = Append(drains, drains'[Len(drains')])
                  /\ drains'[Len(drains')].batch = last'.batch
                  /\ taskQueue' = SubSeq(taskQueue, m + 1, n)
                  /\ \A i \in 1..m, j \in (m + 1)..n :
                        taskQueue[i].priority >= taskQueue[j].priority
        /\ last'.act \in {"floodTask", "addTask"} /\ drains # <<>> =>
              /\ Len(taskQueue') = Len(taskQueue) + 1
              /\ Len(drains') = Len(drains)
              /\ \A d \in 1..Len(drains) : drains'[d].batch = drains[d].batch ]_vars

\* tasks of the stream were drained in a batch that left the workspace file
\* queued (it was queued before them, so that batch was 10 of at least 11);
\* now the drain of that file waits for its embeddings, and the 11 tasks
\* added since are all queued
C38_Witness ==
    /\ last.act = "floodTask"
    /\ handed[0] > 0
    /\ Len(drains) = 1
    /\ Len(drains[1].batch) = 1 /\ drains[1].batch[1].type = "file"
    /\ drains[1].pc = "embed"
    /\ Len(taskQueue) = 11

----------------------------------------------------------------------------
(* indexWorkspace over any listing of the memory directory *)

\* the most *.md files in the memory directory
MaxFiles == 3

\* the *.md files the directory may hold: two that are read, one of exactly
\* 1 MiB that is read, one over 1 MiB, one whose readFileSync throws
WorkspaceFiles ==
    { [name |-> "a.md", size |-> 5, readable |-> TRUE, content |-> MarkdownText],
      [name |-> "b.md", size |-> 2, readable |-> TRUE, content |-> ShortText],
      [name |-> "limit.md", size |-> MaxFileSize, readable |-> TRUE, content |-> LongText],
      [name |-> "big.md", size |-> MaxFileSize + 1, readable |-> TRUE, content |-> <<>>],
      [name |-> "gone.md", size |-> 2, readable |-> FALSE, content |-> <<>>] }

\* readdirSync(memoryDir).filter(...): up to MaxFiles of them in any order
Listings ==
    UNION { { files \in [1..n -> WorkspaceFiles] :
                \A i, j \in 1..n : files[i] = files[j] => i = j } : n \in 0..MaxFiles }

\* the queue when indexWorkspace is called: empty, or holding one request
QueuesBefore ==
    { <<>>, addTask(<<>>, [type |-> "text", content |-> LongText, sourcePath |-> "rpc-input",
                           priority |-> RpcPriority], 1) }

WorkspaceInit ==
    /\ Constructed
    /\ \E files \in Listings, queue \in QueuesBefore :
          last = [act |-> "listing", files |-> files, queue |-> queue]

\* indexWorkspace() over the listing
IndexWorkspace ==
    /\ last.act = "listing"
    /\ \E r \in {IndexFiles(last.files, last.queue, Len(last.queue), 1, 0, 0)} :
          last' = [act |-> "indexWorkspace", files |-> last.files, before |-> last.queue,
                   queue |-> r.queue, indexed |-> r.indexed, errors |-> r.errors]
    /\ UNCHANGED <<storeVars, svcVars, histVars, hookVars>>

WorkspaceSpec == WorkspaceInit /\ [][IndexWorkspace]_vars

\* the places of the queue that hold a task made from the file
TasksOfFile(queue, file) ==
    { k \in 1..Len(queue) : queue[k].type = "file" /\ queue[k].sourcePath = file.name }

\* C39: indexWorkspace queues no task for a file over 1 MiB or a file whose
\* reading fails, and exactly one task, of type file and priority 1 with the
\* content of the file, for every other file, wherever the file stands in
\* the listing; `indexed` is the number of files read, `errors` the number
\* of files whose reading failed, and nothing else joins or leaves the queue
C39_EveryFileInOneCase ==
    last.act = "indexWorkspace" =>
        LET files  == last.files
            over   == { i \in 1..Len(files) : files[i].size > 1048576 }
            failed == { i \in 1..Len(files) : files[i].size <= 1048576 /\ ~files[i].readable }
            read   == { i \in 1..Len(files) : files[i].size <= 1048576 /\ files[i].readable }
        IN  /\ \A i \in over \cup failed : TasksOfFile(last.queue, files[i]) = {}
            /\ \A i \in read :
                  /\ Cardinality(TasksOfFile(last.queue, files[i])) = 1
                  /\ \A k \in TasksOfFile(last.queue, files[i]) :
                        /\ last.queue[k].priority = 1
                        /\ last.queue[k].content = files[i].content
            /\ last.indexed = Cardinality(read)
            /\ last.errors = Cardinality(failed)
            /\ Len(last.queue) = Len(last.before) + Cardinality(read)
            /\ \A k \in 1..Len(last.before) :
                  \E m \in 1..Len(last.queue) : last.queue[m] = last.before[k]

\* a file whose reading failed stood first, a file over 1 MiB second and a
\* file that was read last: one error, one file indexed, its task queued
\* behind the request that was waiting
C39_Witness ==
    /\ last.act = "indexWorkspace"
    /\ Len(last.files) = 3
    /\ ~last.files[1].readable
    /\ last.files[2].size > 1048576
    /\ last.files[3].readable /\ last.files[3].size = 1048576
    /\ last.errors = 1 /\ last.indexed = 1
    /\ Len(last.before) = 1 /\ Len(last.queue) = 2
    /\ last.queue[2].sourcePath = last.files[3].name

----------------------------------------------------------------------------
(* hooks/session-protect and hooks/bootstrap-inject: the critical context *)

\* the most contexts session-protect saves in one behaviour
MaxSaves == 3

\* the events the two handlers are called with
LifecycleEvents ==
    { [type |-> "command", action |-> "new"],
      [type |-> "command", action |-> "reset"],
      [type |-> "command", action |-> "stop"],
      [type |-> "agent", action |-> "bootstrap"] }

\* saveCriticalContext(context, workspaceDir): writeFileSync replaces
\* whatever critical_context.json held; 0 stands for no file
saveCriticalContext(file, context) == context

\* loadCriticalContext(workspaceDir): null (0) without the file, else the
\* context parsed from it
loadCriticalContext(file) == file

\* clearCriticalContext(workspaceDir): with the file present it calls
\* require('fs'), which is a ReferenceError where the ES module is loaded
\* without a require in scope, and then unlinkSync
clearCriticalContext(file, requireDefined) ==
    IF file = 0 THEN [file |-> 0, threw |-> FALSE]
    ELSE IF requireDefined THEN [file |-> 0, threw |-> FALSE]
    ELSE [file |-> file, threw |-> TRUE]

\* the module as loaded: whether `require` is defined in its scope; no
\* context saved, none injected
ProtectInit ==
    /\ Constructed
    /\ \E requireDefined \in BOOLEAN :
          last = [act |-> "loaded", require |-> requireDefined, file |-> 0, saves |-> 0,
                  times |-> [c \in 1..MaxSaves |-> 0], pushed |-> 0, rag |-> FALSE,
                  injectedCount |-> 0]

\* the session-protect handler: on command:new and command:reset with a
\* workspace directory it builds the context and saves it; a failure of
\* either (buildOk) is caught and logged
SessionProtect(event, workspaceDir, buildOk) ==
    /\ last.saves < MaxSaves
    /\ LET handles == event.type = "command" /\ event.action \in {"new", "reset"} /\ workspaceDir
           saved   == handles /\ buildOk
       IN  last' = [last EXCEPT
                      !.act = "sessionProtect",
                      !.file = IF saved THEN saveCriticalContext(@, last.saves + 1) ELSE @,
                      !.saves = IF saved THEN @ + 1 ELSE @,
                      !.pushed = 0, !.rag = FALSE, !.injectedCount = 0]
    /\ UNCHANGED <<storeVars, svcVars, histVars, hookVars>>

\* the bootstrap-inject handler: on agent:bootstrap with a workspace
\* directory it pushes the loaded context onto bootstrapFiles and then clears
\* the cache, inside one try; after it, it pushes what the retrieval of
\* history returns (rag), if anything
BootstrapInject(event, workspaceDir, rag) ==
    /\ LET handles == event.type = "agent" /\ event.action = "bootstrap" /\ workspaceDir
           criticalContext == loadCriticalContext(last.file)
           cleared == clearCriticalContext(last.file, last.require)
           counted == IF criticalContext # 0 /\ ~cleared.threw THEN 1 ELSE 0
       IN  last' = [last EXCEPT
                      !.act = IF handles THEN "bootstrap" ELSE "ignored",
                      !.file = IF handles /\ criticalContext # 0 THEN cleared.file ELSE @,
                      !.times = IF handles /\ criticalContext # 0
                                THEN [@ EXCEPT ![criticalContext] = Min(@ + 1, 2)] ELSE @,
                      !.pushed = IF handles THEN criticalContext ELSE 0,
                      !.rag = handles /\ rag,
                      !.injectedCount = IF handles THEN counted + (IF rag THEN 1 ELSE 0)
                                        ELSE 0]
    /\ UNCHANGED <<storeVars, svcVars, histVars, hookVars>>

ProtectNext ==
    \/ \E event \in LifecycleEvents, workspaceDir \in BOOLEAN, buildOk \in BOOLEAN :
          SessionProtect(event, workspaceDir, buildOk)
    \/ \E event \in LifecycleEvents, workspaceDir \in BOOLEAN, rag \in BOOLEAN :
          BootstrapInject(event, workspaceDir, rag)

ProtectSpec == ProtectInit /\ [][ProtectNext]_vars

\* C40: a bootstrap event that finds a saved context pushes that context
\* and leaves no cache file; one that finds no cache file pushes no critical
\* context; so no saved context is pushed twice
C40_InjectedOnce ==
    [][ last'.act = "bootstrap" =>
          /\ last.file # 0 => last'.pushed = last.file /\ last'.file = 0
          /\ last.file = 0 => last'.pushed = 0
          /\ \A c \in 1..MaxSaves : last'.times[c] <= 1 ]_vars

====
